---------------------------- MODULE Spec2Model ----------------------------
(***************************************************************************)
(* Model of the Artery AT32 NOR flash driver, src/flash/nor/at32f4xx.c     *)
(* (the sub-bank revision of the driver, lines 1147..2356 of the file).    *)
(*                                                                         *)
(* Every driver entry point is one atomic action.  The functions of the    *)
(* driver are operators that thread a "machine" record m through the       *)
(* calls they make:                                                        *)
(*   m.rc        the int the C function returned                           *)
(*   m.log       every call made to the debug transport, in order          *)
(*   m.env       what the transport and the controller do in this call     *)
(*               (which accesses fail, what the status register reports,   *)
(*               how much working area there is): the inputs of the call   *)
(*   m.sub_bank, m.sectors, m.usd_data, m.wa ...   driver-owned state      *)
(*   m.flash, m.opt, m.efc                         the flash controller    *)
(*                                                                         *)
(* 32-bit unsigned values are held as their two's-complement int32 bit     *)
(* pattern (0xCDEF89AB is -839939669), so that additions and subtractions  *)
(* of the small magnitudes used here wrap exactly as uint32_t does;        *)
(* U32Lt / min_t compare such patterns as unsigned numbers.                *)
(***************************************************************************)
EXTENDS Integers, Naturals, Sequences, FiniteSets, TLC

(* ------------------------------ bounds -------------------------------- *)
\* sectors of sub-bank 0 and (on a two-sub-bank device) of sub-bank 1
NumSec0 == 3
NumSec1 == 2
\* half-words per sector (sector_size = 2 * SecHW bytes)
SecHW == 1
\* transport accesses 1..MaxAcc of a call may fail
MaxAcc == 12
\* the wait-busy calls 1..MaxWait of a call may see a hardware error
MaxWait == 3
\* the longest buffer handed to write, in bytes
MaxCount == 6
\* a second failing transport access follows the first by at most FaultGap
FaultGap == 3

(* --------------------------- program constants ------------------------ *)
KEY1 == 1164378403
KEY2 == -839939669

FLASH_SECTOR_ERASE_TIMEOUT == 1000
FLASH_MASS_ERASE_TIMEOUT == 120000

BANK1_BASE_ADDR == 134217728

EFC_UNLOCK == 4
EFC_USD_UNLOCK == 8
EFC_STS == 12
EFC_CTRL == 16
EFC_ADDR == 20

EFCCTRL_FPRGM == 1
EFCCTRL_SECERS == 2
EFCCTRL_BANKERS == 4
EFCCTRL_USDPRGM == 16
EFCCTRL_USDERS == 32
EFCCTRL_ERSTR == 64
EFCCTRL_OPLK == 128
EFCCTRL_USDULKS == 512

EFCSTS_OBF == 1
EFCSTS_PRGMERR == 4
EFCSTS_EPPERR == 16

\* at32f403a: flash_reg, usd_addr
FLASH_REG == 1073881088
USD_ADDR == 536868864

ERROR_OK == 0
ERROR_FAIL == -4
ERROR_TARGET_NOT_HALTED == -304
ERROR_TARGET_RESOURCE_NOT_AVAILABLE == -308
ERROR_FLASH_OPERATION_FAILED == -902
ERROR_FLASH_DST_BREAKS_ALIGNMENT == -904

\* the error a failing transport access returns: one code per access, so
\* that the access a result comes from can be told
IoErr(k) == -(1000 + k)

(* ------------------------------ helpers ------------------------------- *)
\* bit b (a power of two) of v is set
HasBit(v, b) == (v \div b) % 2 = 1

\* unsigned comparison of two uint32_t bit patterns
U32Lt(a, b) == IF (a >= 0) = (b >= 0) THEN a < b ELSE a >= 0

\* min_t(uint32_t, x, y)
min_t(x, y) == IF U32Lt(x, y) THEN x ELSE y

\* F of the value of v, which is worked out once
Let(v, F(_)) == CHOOSE y \in {F(x) : x \in {v}} : TRUE

\* ERR_CHECK: the rest of a function runs only when the call before it
\* returned ERROR_OK
ERR_CHECK(m, F(_)) == Let(m, LAMBDA x : IF x.rc = ERROR_OK THEN F(x) ELSE x)

SubBankIds == {0, 1}


(* ------------------------------ geometry ------------------------------ *)
\* chip->sector_size, in bytes (the array is programmed in half-words)
sector_size == 2 * SecHW

\* the single-bank capacity, (flash_size_kb > 1024) ? 2 << 20 : 512 << 10,
\* scaled to NumSec0 sectors
BankThreshold == NumSec0 * sector_size

\* chip->flash_size_kb << 10 of a one-sub-bank and of a two-sub-bank chip
FlashSizes == {BankThreshold, BankThreshold + NumSec1 * sector_size}

\* the threshold with the 2 MiB capacity from 1024 KiB on
MainFlashThreshold_From1024(flash_size_kb) ==
    IF flash_size_kb >= 1024 THEN 2097152 ELSE 524288

\* (chip->flash_size_kb > 1024) ? 2 << 20 : 512 << 10
MainFlashThreshold(flash_size_kb) ==
    IF flash_size_kb > 1024 THEN 2097152 ELSE 524288

\* sub_bank[].reg_base and .size as at32x_init_main_flash sets them, for a
\* single-bank capacity of threshold bytes
SubBankSplit(flash_reg, flash_size, threshold) ==
    LET size0 == min_t(flash_size, threshold)
    IN  [i \in SubBankIds |->
            IF i = 0 THEN [reg_base |-> flash_reg, size |-> size0]
            ELSE [reg_base |-> flash_reg + 64, size |-> flash_size - size0]]

\* sub_bank[].base and .num_sectors: the loop of at32_get_device_info over
\* sub-banks of the sizes and register bases sb, from bank->base onwards
\* the layout with both sub-banks at the base of the bank
SubBankLayout_SameBase(sb, base, secsz) ==
    [i \in SubBankIds |->
        [reg_base |-> sb[i].reg_base,
         size |-> sb[i].size,
         num_sectors |-> sb[i].size \div secsz,
         base |-> base]]

\* the layout with the sectors of a sub-bank counted in 4096-byte units
SubBankLayout_FixedSector(sb, base, secsz) ==
    [i \in SubBankIds |->
        [reg_base |-> sb[i].reg_base,
         size |-> sb[i].size,
         num_sectors |-> sb[i].size \div 4096,
         base |-> IF i = 0 THEN base ELSE base + sb[0].size]]

SubBankLayout(sb, base, secsz) ==
    [i \in SubBankIds |->
        [reg_base |-> sb[i].reg_base,
         size |-> sb[i].size,
         num_sectors |-> sb[i].size \div secsz,
         base |-> IF i = 0 THEN base ELSE base + sb[0].size]]

\* the sub-banks of the scaled device after at32x_init_main_flash ...
ScaledMainFlash(flash_size) == SubBankSplit(FLASH_REG, flash_size, BankThreshold)

\* ... and after at32_get_device_info
ScaledDeviceInfo(flash_size) ==
    SubBankLayout(ScaledMainFlash(flash_size), BANK1_BASE_ADDR, sector_size)

\* bank->num_sectors as at32x_probe sets it
BankNumSectors(flash_size) == flash_size \div sector_size

\* bank->size: the sub-bank sizes add up to flash_size
BankSize(sb) == sb[0].size + sb[1].size

MaxBankSize == BankThreshold + NumSec1 * sector_size
MaxSectors == MaxBankSize \div sector_size

(* ----------------- the flash controller and the transport ------------- *)
\* what the plan of the call lets the wait-busy number w observe
HwKind(m, w) == IF w = m.env.hwAt THEN m.env.hwKind ELSE "ok"

\* EFC_STS as read while that operation is pending / once it has ended
StatusOf(kind) ==
    CASE kind = "stuck" -> EFCSTS_OBF
      [] kind = "prgmerr" -> EFCSTS_PRGMERR
      [] kind = "epperr" -> EFCSTS_EPPERR
      [] kind = "both" -> EFCSTS_PRGMERR + EFCSTS_EPPERR
      [] OTHER -> 0

\* the sub-bank whose register aperture holds address a (2 when none does)
ApertureOf(m, a) ==
    IF a >= m.sub_bank[1].reg_base /\ a < m.sub_bank[1].reg_base + 64 THEN 1
    ELSE IF a >= m.sub_bank[0].reg_base /\ a < m.sub_bank[0].reg_base + 64 THEN 0
    ELSE 2

\* global sector numbers held by sub-bank sb
SectorsOf(m, sb) ==
    {g \in 0..(MaxSectors - 1) :
        /\ g * sector_size >= m.sub_bank[sb].base - BANK1_BASE_ADDR
        /\ g * sector_size < m.sub_bank[sb].base - BANK1_BASE_ADDR + m.sub_bank[sb].size}

\* the array after the controller erased the sectors S
HwErase(m, S) ==
    [m EXCEPT !.flash = [b \in DOMAIN m.flash |->
                            IF (b \div sector_size) \in S THEN 255 ELSE m.flash[b]],
              !.ers = [g \in DOMAIN m.ers |->
                            IF g \in S THEN m.ers[g] + 1 ELSE m.ers[g]]]

\* the effect of a start bit written to EFC_CTRL of sub-bank sb: the erase
\* takes place when the sub-bank is unlocked and the operation ends without
\* an error flag
HwStart(m, sb, v) ==
    IF ~m.efc[sb].unlocked \/ HwKind(m, m.waits + 1) # "ok" THEN m
    ELSE IF HasBit(v, EFCCTRL_BANKERS) THEN HwErase(m, SectorsOf(m, sb))
    ELSE IF HasBit(v, EFCCTRL_SECERS)
         THEN HwErase(m, {g \in SectorsOf(m, sb) :
                            g = (m.efc[sb].addr - BANK1_BASE_ADDR) \div sector_size})
    ELSE IF HasBit(v, EFCCTRL_USDERS) /\ sb = 0
         THEN [m EXCEPT !.opt = [b \in DOMAIN m.opt |-> 255]]
    ELSE m

\* the effect of a 32-bit write that reached the target
HwWrite32(m, a, v) ==
    LET sb == ApertureOf(m, a)
        off == a - m.sub_bank[sb].reg_base
    IN  IF sb = 2 THEN m
        ELSE IF off = EFC_UNLOCK
        THEN IF v = KEY1 THEN [m EXCEPT !.efc[sb].keyst = 1]
             ELSE IF v = KEY2 /\ m.efc[sb].keyst = 1
                  THEN [m EXCEPT !.efc[sb].keyst = 0, !.efc[sb].unlocked = TRUE]
             ELSE [m EXCEPT !.efc[sb].keyst = 0]
        ELSE IF off = EFC_ADDR THEN [m EXCEPT !.efc[sb].addr = v]
        ELSE IF off = EFC_CTRL
        THEN IF HasBit(v, EFCCTRL_OPLK)
             THEN [m EXCEPT !.efc[sb].ctrl = v, !.efc[sb].unlocked = FALSE]
             ELSE IF HasBit(v, EFCCTRL_ERSTR)
                  THEN HwStart([m EXCEPT !.efc[sb].ctrl = v], sb, v)
             ELSE [m EXCEPT !.efc[sb].ctrl = v]
        ELSE m

\* one more entry of the transport log: the call made, its address and
\* value, the code it returned and how many times it was made in a row
Logged(m, op, a, v, code, n) ==
    [m EXCEPT !.log = Append(@, [op |-> op, a |-> a, v |-> v, rc |-> code, n |-> n]),
              !.rc = code]

\* whether the next transport access of the call fails
NextFails(m) == (Len(m.log) + 1) \in m.env.faults

\* target_write_u32
target_write_u32(m, a, v) ==
    IF NextFails(m)
    THEN Logged(m, "w32", a, v, IoErr(Len(m.log) + 1), 1)
    ELSE HwWrite32(Logged(m, "w32", a, v, ERROR_OK, 1), a, v)

\* target_read_u32 of a status register; m.val is the value read.  n reads
\* of the same value are one log entry
target_read_status(m, a, v, n) ==
    IF NextFails(m)
    THEN Logged(m, "r32", a, 0, IoErr(Len(m.log) + 1), 1)
    ELSE [Logged(m, "r32", a, v, ERROR_OK, n) EXCEPT !.val = v]

(* ------------------------- register access layer ---------------------- *)
at32x_get_flash_reg(m, sb, reg) == reg + m.sub_bank[sb].reg_base

sub_bank_write_reg(m, sb, off, value) ==
    target_write_u32(m, at32x_get_flash_reg(m, sb, off), value)

at32x_flash_unlock(m, sb) ==
    ERR_CHECK(sub_bank_write_reg(m, sb, EFC_UNLOCK, KEY1),
              LAMBDA x : sub_bank_write_reg(x, sb, EFC_UNLOCK, KEY2))

\* The polling loop.  A controller that stays busy is read timeout + 1 times
\* (timeout-- <= 0 ends the loop after the read made with timeout = 0), with
\* timeout sleeps in between; the reads are one log entry with n = timeout+1.
at32x_wait_status_busy(m, sb, timeout) ==
    LET w == m.waits + 1
        kind == HwKind(m, w)
        m0 == [m EXCEPT !.waits = w]
        sts == at32x_get_flash_reg(m, sb, EFC_STS)
    IN  IF kind = "stuck"
        THEN LET m1 == target_read_status(m0, sts, StatusOf(kind), timeout + 1)
             IN  IF m1.rc # ERROR_OK THEN m1 ELSE [m1 EXCEPT !.rc = ERROR_FAIL]
        ELSE LET m1 == target_read_status(m0, sts, StatusOf(kind), 1)
             IN  IF m1.rc # ERROR_OK THEN m1
                 ELSE IF HasBit(m1.val, EFCSTS_EPPERR) \/ HasBit(m1.val, EFCSTS_PRGMERR)
                 THEN [sub_bank_write_reg(m1, sb, EFC_STS,
                                          EFCSTS_EPPERR + EFCSTS_PRGMERR)
                          EXCEPT !.rc = ERROR_FAIL]
                 ELSE [m1 EXCEPT !.rc = ERROR_OK]

\* alive_sleep(1)
alive_sleep(m) == Logged(m, "sleep", 1, 0, ERROR_OK, 1)

\* the test that ends the loop one poll later
TimedOut_Late(timeout) == timeout < 0

\* timeout-- <= 0
TimedOut(timeout) == timeout <= 0

\* the part after the loop with the result of the clearing write returned
LogAndClearErrors_WriteResult(m, sb) ==
    IF HasBit(m.val, EFCSTS_EPPERR) \/ HasBit(m.val, EFCSTS_PRGMERR)
    THEN sub_bank_write_reg(m, sb, EFC_STS, EFCSTS_EPPERR + EFCSTS_PRGMERR)
    ELSE [m EXCEPT !.rc = ERROR_OK]

\* the part of at32x_wait_status_busy after the loop; m.val is status
LogAndClearErrors(m, sb) ==
    IF HasBit(m.val, EFCSTS_EPPERR) \/ HasBit(m.val, EFCSTS_PRGMERR)
    THEN [sub_bank_write_reg(m, sb, EFC_STS, EFCSTS_EPPERR + EFCSTS_PRGMERR)
             EXCEPT !.rc = ERROR_FAIL]
    ELSE [m EXCEPT !.rc = ERROR_OK]

\* The loop of at32x_wait_status_busy poll by poll: the controller shows
\* EFCSTS_OBF to the first busy polls and then the status of the plan.
RECURSIVE WaitLoop(_, _, _, _)
WaitLoop(m, sb, timeout, busy) ==
    Let(target_read_status(m, at32x_get_flash_reg(m, sb, EFC_STS),
                           IF busy > 0 THEN EFCSTS_OBF ELSE StatusOf(m.env.hwKind), 1),
        LAMBDA m1 :
            IF m1.rc # ERROR_OK THEN m1
            ELSE IF ~HasBit(m1.val, EFCSTS_OBF) THEN LogAndClearErrors(m1, sb)
            ELSE IF TimedOut(timeout) THEN [m1 EXCEPT !.rc = ERROR_FAIL]
            ELSE WaitLoop(alive_sleep(m1), sb, timeout - 1, busy - 1))

\* at32x_wait_status_busy with a controller that is busy for m.env.busy polls
WaitStatusBusyPolled(m, sb, timeout) ==
    WaitLoop([m EXCEPT !.waits = @ + 1], sb, timeout, m.env.busy)

(* ------------------------------ erase engine -------------------------- *)
at32x_sub_bank_mass_erase(m, sb) ==
    IF m.sub_bank[sb].size = 0 THEN [m EXCEPT !.rc = ERROR_OK]
    ELSE
    LET m1 == at32x_flash_unlock(m, sb)
        m2 == ERR_CHECK(m1, LAMBDA x :
                sub_bank_write_reg(x, sb, EFC_CTRL, EFCCTRL_BANKERS))
        m3 == ERR_CHECK(m2, LAMBDA x :
                sub_bank_write_reg(x, sb, EFC_CTRL, EFCCTRL_BANKERS + EFCCTRL_ERSTR))
        m4 == ERR_CHECK(m3, LAMBDA x :
                at32x_wait_status_busy(x, sb, FLASH_MASS_ERASE_TIMEOUT))
    IN  ERR_CHECK(m4, LAMBDA x : sub_bank_write_reg(x, sb, EFC_CTRL, EFCCTRL_OPLK))

\* the turn with the erase started before the address is written
SectorEraseStep_StartFirst(m, sb, i, secsz) ==
    LET m1 == sub_bank_write_reg(m, sb, EFC_CTRL, EFCCTRL_SECERS)
        m2 == ERR_CHECK(m1, LAMBDA x :
                sub_bank_write_reg(x, sb, EFC_CTRL, EFCCTRL_SECERS + EFCCTRL_ERSTR))
        m3 == ERR_CHECK(m2, LAMBDA x :
                sub_bank_write_reg(x, sb, EFC_ADDR, m.sub_bank[sb].base + i * secsz))
        m4 == ERR_CHECK(m3, LAMBDA x :
                at32x_wait_status_busy(x, sb, FLASH_SECTOR_ERASE_TIMEOUT))
    IN  ERR_CHECK(m4, LAMBDA x : [x EXCEPT !.sectors[i].is_erased = 1])

\* one turn of the for loop of at32x_sub_bank_erase: sector i of sub-bank sb
SectorEraseStep(m, sb, i, secsz) ==
    LET m1 == sub_bank_write_reg(m, sb, EFC_CTRL, EFCCTRL_SECERS)
        m2 == ERR_CHECK(m1, LAMBDA x :
                sub_bank_write_reg(x, sb, EFC_ADDR, m.sub_bank[sb].base + i * secsz))
        m3 == ERR_CHECK(m2, LAMBDA x :
                sub_bank_write_reg(x, sb, EFC_CTRL, EFCCTRL_SECERS + EFCCTRL_ERSTR))
        m4 == ERR_CHECK(m3, LAMBDA x :
                at32x_wait_status_busy(x, sb, FLASH_SECTOR_ERASE_TIMEOUT))
    IN  ERR_CHECK(m4, LAMBDA x : [x EXCEPT !.sectors[i].is_erased = 1])

RECURSIVE SectorEraseLoop(_, _, _, _, _)
SectorEraseLoop(m, sb, i, last, secsz) ==
    IF i > last THEN m
    ELSE ERR_CHECK(SectorEraseStep(m, sb, i, secsz),
                   LAMBDA x : SectorEraseLoop(x, sb, i + 1, last, secsz))

\* the body without the test for the whole sub-bank
SubBankEraseBody_NoMassErase(m, sb, first, last) ==
    LET secsz == m.sub_bank[sb].size \div m.sub_bank[sb].num_sectors
        m1 == ERR_CHECK(at32x_flash_unlock(m, sb), LAMBDA x :
                            SectorEraseLoop(x, sb, first, last, secsz))
    IN  ERR_CHECK(m1, LAMBDA x :
                            sub_bank_write_reg(x, sb, EFC_CTRL, EFCCTRL_OPLK))

SubBankEraseBody(m, sb, first, last) ==
    LET secsz == m.sub_bank[sb].size \div m.sub_bank[sb].num_sectors
    IN  IF first = 0 /\ last = m.sub_bank[sb].num_sectors - 1
        THEN at32x_sub_bank_mass_erase(m, sb)
        ELSE LET m1 == ERR_CHECK(at32x_flash_unlock(m, sb), LAMBDA x :
                            SectorEraseLoop(x, sb, first, last, secsz))
             IN  ERR_CHECK(m1, LAMBDA x :
                            sub_bank_write_reg(x, sb, EFC_CTRL, EFCCTRL_OPLK))

\* m.pieces records the call: its arguments, the part of the log it made
\* (entries from + 1 .. to) and its result
at32x_sub_bank_erase(m, sb, first, last) ==
    Let(SubBankEraseBody(m, sb, first, last), LAMBDA m1 :
        [m1 EXCEPT !.pieces = Append(@, [sb |-> sb, first |-> first, last |-> last,
                                         from |-> Len(m.log), to |-> Len(m1.log),
                                         rc |-> m1.rc])])

\* the loop ended by the first sub-bank that fails
at32x_mass_erase_loop_StopOnError(m) ==
    ERR_CHECK(at32x_sub_bank_mass_erase(m, 0),
              LAMBDA x : at32x_sub_bank_mass_erase(x, 1))

\* the for loop of at32x_mass_erase: the result of each sub-bank is dropped
at32x_mass_erase_loop(m) ==
    at32x_sub_bank_mass_erase(at32x_sub_bank_mass_erase(m, 0), 1)

at32x_mass_erase(m) ==
    IF ~m.halted THEN [m EXCEPT !.rc = ERROR_TARGET_NOT_HALTED]
    ELSE [at32x_mass_erase_loop(m) EXCEPT !.rc = ERROR_OK]

\* the for loop of at32x_erase over the sub-banks i, i+1, ...
RECURSIVE EraseWalk(_, _, _, _)
EraseWalk(m, i, first, last) ==
    IF i > 1 THEN [m EXCEPT !.rc = ERROR_OK]
    ELSE LET n == m.sub_bank[i].num_sectors
         IN  IF U32Lt(first, n)
             THEN LET l == min_t(last, n - 1)
                      m1 == at32x_sub_bank_erase(m, i, first, l)
                  IN  IF m1.rc # ERROR_OK THEN m1
                      ELSE IF last = l THEN [m1 EXCEPT !.rc = ERROR_OK]
                      ELSE EraseWalk(m1, i + 1, 0, last - n)
             ELSE EraseWalk(m, i + 1, first - n, last - n)

at32x_erase(m, first, last) ==
    IF ~m.halted THEN [m EXCEPT !.rc = ERROR_TARGET_NOT_HALTED]
    ELSE IF first = 0 /\ last = m.num_sectors - 1 THEN at32x_mass_erase(m)
    ELSE EraseWalk(m, 0, first, last)

(* ------------------------------ write engine -------------------------- *)
\* byte k of the memory a buffer pointer designates: buf.data is the object
\* pointed into, buf.pos the position of the pointer in it.  A read past
\* the end of the object is undefined; it yields the byte m.env.junk
BufByte(m, buf, k) ==
    IF buf.pos + k < Len(buf.data) THEN buf.data[buf.pos + k + 1] ELSE m.env.junk

\* the half-word with the first byte as its high byte
BufHalfWord_BigEndian(m, buf, k) == 256 * BufByte(m, buf, 2 * k) + BufByte(m, buf, 2 * k + 1)

\* memcpy(&value, buffer, sizeof(uint16_t)) on a little-endian host
BufHalfWord(m, buf, k) == BufByte(m, buf, 2 * k) + 256 * BufByte(m, buf, 2 * k + 1)

\* the effect of a half-word program at address a.  A location of the main
\* array takes the value when it is erased; an option half-word takes the
\* data byte and, in its high byte, the complement the controller adds
HwProgram16(m, a, v) ==
    LET off == a - BANK1_BASE_ADDR
        uoff == a - USD_ADDR
    IN  IF off >= 0 /\ off + 1 < BankSize(m.sub_bank)
        THEN [m EXCEPT !.flash = [b \in DOMAIN m.flash |->
                 IF b = off /\ m.flash[b] = 255 THEN v % 256
                 ELSE IF b = off + 1 /\ m.flash[b] = 255 THEN v \div 256
                 ELSE m.flash[b]],
                       !.progs = Append(@, off)]
        ELSE IF uoff >= 0 /\ uoff + 1 < 16
        THEN [m EXCEPT !.opt = [b \in DOMAIN m.opt |->
                 IF b = uoff THEN v % 256
                 ELSE IF b = uoff + 1 THEN 255 - (v % 256)
                 ELSE m.opt[b]]]
        ELSE m

\* target_write_u16
target_write_u16(m, a, v) ==
    IF NextFails(m)
    THEN Logged(m, "w16", a, v, IoErr(Len(m.log) + 1), 1)
    ELSE LET m1 == Logged(m, "w16", a, v, ERROR_OK, 1)
         IN  IF HwKind(m, m.waits + 1) = "ok" THEN HwProgram16(m1, a, v) ELSE m1

\* target_alloc_working_area / target_alloc_working_area_try
\* the working area a log entry is about: 1 is source, 0 write_algorithm
AreaNo(what) == IF what = "source" THEN 1 ELSE 0

target_alloc_working_area(m, what, size, avail) ==
    IF avail
    THEN [Logged(m, "alloc", size, AreaNo(what), ERROR_OK, 1)
             EXCEPT !.wa = Append(@, what)]
    ELSE Logged(m, "alloc", size, AreaNo(what), ERROR_TARGET_RESOURCE_NOT_AVAILABLE, 1)

\* target_free_working_area
target_free_working_area(m, what) ==
    [Logged(m, "free", 0, AreaNo(what), ERROR_OK, 1)
        EXCEPT !.wa = SelectSeq(@, LAMBDA w : w # what)]

\* target_write_buffer of the accelerator code
target_write_buffer(m) ==
    IF NextFails(m)
    THEN Logged(m, "wbuf", 0, 0, IoErr(Len(m.log) + 1), 1)
    ELSE Logged(m, "wbuf", 0, 0, ERROR_OK, 1)

\* the accelerator programming half-words k .. count-1 of the buffer
RECURSIVE HwRun(_, _, _, _, _)
HwRun(m, buf, address, count, k) ==
    IF k >= count THEN m
    ELSE HwRun(HwProgram16(m, address + 2 * k, BufHalfWord(m, buf, k)),
               buf, address, count, k + 1)

\* the log entry of a run of the loader: r0 is reg_params[0] after it, the
\* status the loader reports
RunLogged(m, address, count, code, r0) ==
    [m EXCEPT !.log = Append(@, [op |-> "run", a |-> address, v |-> count,
                                 rc |-> code, n |-> 1, r0 |-> r0]),
              !.rc = code,
              !.val = r0]

\* target_run_flash_async_algorithm; m.val is r0, the status it reports
target_run_flash_async_algorithm(m, buf, address, count) ==
    IF NextFails(m)
    THEN RunLogged(m, address, count, IoErr(Len(m.log) + 1), 0)
    ELSE IF m.env.runKind = "ok"
    THEN [HwRun(RunLogged(m, address, count, ERROR_OK, 0), buf, address, count, 0)
             EXCEPT !.val = 0]
    ELSE RunLogged(m, address, count, ERROR_FLASH_OPERATION_FAILED,
                   StatusOf(m.env.runKind))

\* the first staging buffer size tried
StageFirst == 16384
StageFloor == 256

\* the test that lets a buffer of StageFloor bytes be tried
StageTooSmall_BelowFloor(buffer_size) == buffer_size < StageFloor

\* buffer_size <= 256
StageTooSmall(buffer_size) == buffer_size <= StageFloor

\* the while loop of at32x_write_block that reserves the staging buffer;
\* on failure the accelerator region is released
RECURSIVE StageLoop(_, _)
StageLoop(m, buffer_size) ==
    LET m1 == target_alloc_working_area(m, "source", buffer_size,
                                        buffer_size <= m.env.stageAvail)
        half == buffer_size \div 2
        next == half - (half % 4)
    IN  IF m1.rc = ERROR_OK THEN m1
        ELSE IF StageTooSmall(next)
        THEN [target_free_working_area(m1, "write_algorithm")
                 EXCEPT !.rc = ERROR_TARGET_RESOURCE_NOT_AVAILABLE]
        ELSE StageLoop(m1, next)

\* the tail with the two regions released in the other order
RunAndRelease_AlgorithmFirst(m, sb, buf, address, count) ==
    LET m1 == target_run_flash_async_algorithm(m, buf, address, count)
        retval == m1.rc
        m2 == IF retval = ERROR_FLASH_OPERATION_FAILED /\ HasBit(m1.val, EFCSTS_PRGMERR)
              THEN sub_bank_write_reg(m1, sb, EFC_STS, EFCSTS_PRGMERR) ELSE m1
        m3 == IF retval = ERROR_FLASH_OPERATION_FAILED /\ HasBit(m1.val, EFCSTS_EPPERR)
              THEN sub_bank_write_reg(m2, sb, EFC_STS, EFCSTS_EPPERR) ELSE m2
        m4 == target_free_working_area(m3, "write_algorithm")
    IN  [target_free_working_area(m4, "source") EXCEPT !.rc = retval]

\* the tail with the error flags cleared by one write of both bits
RunAndRelease_OneClear(m, sb, buf, address, count) ==
    LET m1 == target_run_flash_async_algorithm(m, buf, address, count)
        retval == m1.rc
        m3 == IF /\ retval = ERROR_FLASH_OPERATION_FAILED
                 /\ (HasBit(m1.val, EFCSTS_PRGMERR) \/ HasBit(m1.val, EFCSTS_EPPERR))
              THEN sub_bank_write_reg(m1, sb, EFC_STS, EFCSTS_PRGMERR + EFCSTS_EPPERR)
              ELSE m1
        m4 == target_free_working_area(m3, "source")
    IN  [target_free_working_area(m4, "write_algorithm") EXCEPT !.rc = retval]

\* the tail of at32x_write_block once both regions are reserved
RunAndRelease(m, sb, buf, address, count) ==
    LET m1 == target_run_flash_async_algorithm(m, buf, address, count)
        retval == m1.rc
        m2 == IF retval = ERROR_FLASH_OPERATION_FAILED /\ HasBit(m1.val, EFCSTS_PRGMERR)
              THEN sub_bank_write_reg(m1, sb, EFC_STS, EFCSTS_PRGMERR) ELSE m1
        m3 == IF retval = ERROR_FLASH_OPERATION_FAILED /\ HasBit(m1.val, EFCSTS_EPPERR)
              THEN sub_bank_write_reg(m2, sb, EFC_STS, EFCSTS_EPPERR) ELSE m2
        m4 == target_free_working_area(m3, "source")
    IN  [target_free_working_area(m4, "write_algorithm") EXCEPT !.rc = retval]

at32x_write_block(m, sb, buf, address, count) ==
    LET m1 == target_alloc_working_area(m, "write_algorithm", 0, m.env.algOk)
    IN  IF m1.rc # ERROR_OK
        THEN [m1 EXCEPT !.rc = ERROR_TARGET_RESOURCE_NOT_AVAILABLE]
        ELSE LET m2 == target_write_buffer(m1)
             IN  IF m2.rc # ERROR_OK
                 THEN [target_free_working_area(m2, "write_algorithm")
                          EXCEPT !.rc = m2.rc]
                 ELSE ERR_CHECK(StageLoop(m2, StageFirst), LAMBDA x :
                          RunAndRelease(x, sb, buf, address, count))

\* the while loop of the fallback path of at32x_sub_bank_write
RECURSIVE FallbackLoop(_, _, _, _, _)
FallbackLoop(m, sb, buf, offset, words_remaining) ==
    IF words_remaining <= 0 THEN m
    ELSE LET m1 == target_write_u16(m, m.sub_bank[sb].base + offset,
                                    BufHalfWord(m, buf, 0))
             m2 == ERR_CHECK(m1, LAMBDA x : at32x_wait_status_busy(x, sb, 5))
         IN  ERR_CHECK(m2, LAMBDA x :
                 FallbackLoop(x, sb, [buf EXCEPT !.pos = @ + 2], offset + 2,
                              words_remaining - 1))

\* at32x_sub_bank_write up to the label reset_pg_and_lock
SubBankWriteBody(m, sb, buf, offset, words_remaining) ==
    LET m1 == at32x_flash_unlock(m, sb)
        m2 == ERR_CHECK(m1, LAMBDA x :
                sub_bank_write_reg(x, sb, EFC_CTRL, EFCCTRL_FPRGM))
        m3 == ERR_CHECK(m2, LAMBDA x :
                at32x_write_block(x, sb, buf, m.sub_bank[sb].base + offset,
                                  words_remaining))
    IN  IF m2.rc = ERROR_OK /\ m3.rc = ERROR_TARGET_RESOURCE_NOT_AVAILABLE
        THEN FallbackLoop([m3 EXCEPT !.fell = TRUE], sb, buf, offset, words_remaining)
        ELSE m3

\* variant of reset_pg_and_lock: the body's failure returns at once, as under
\* ERR_CHECK, and the lock write is made on success only
ResetPgAndLock_ReturnEarly(m, sb) ==
    IF m.rc # ERROR_OK THEN m
    ELSE sub_bank_write_reg(m, sb, EFC_CTRL, EFCCTRL_OPLK)

\* variant of reset_pg_and_lock: the lock write is made always and its result
\* is the one returned
ResetPgAndLock_LockResult(m, sb) ==
    sub_bank_write_reg(m, sb, EFC_CTRL, EFCCTRL_OPLK)

\* reset_pg_and_lock: the lock write, and which result is returned
ResetPgAndLock(m, sb) ==
    LET retval == m.rc
        m1 == sub_bank_write_reg(m, sb, EFC_CTRL, EFCCTRL_OPLK)
    IN  [m1 EXCEPT !.rc = IF retval = ERROR_OK THEN m1.rc ELSE retval]

\* m.pieces records the call: its arguments, the part of the log it made
\* (entries from + 1 .. to) and its result
at32x_sub_bank_write(m, sb, buf, offset, count) ==
    LET m1 == ResetPgAndLock(SubBankWriteBody(m, sb, buf, offset, count \div 2), sb)
    IN  [m1 EXCEPT !.pieces = Append(@, [sb |-> sb, pos |-> buf.pos,
                                         offset |-> offset, count |-> count,
                                         from |-> Len(m.log), to |-> Len(m1.log),
                                         rc |-> m1.rc])]

\* the for loop of at32x_write over the sub-banks i, i+1, ...; m.rc is retval
RECURSIVE WriteWalk(_, _, _, _, _)
WriteWalk(m, i, buf, offset, count) ==
    IF i > 1 THEN m
    ELSE LET size == m.sub_bank[i].size
         IN  IF U32Lt(offset, size)
             THEN LET c == min_t(count, size)
                      m1 == at32x_sub_bank_write(m, i, buf, offset, c)
                  IN  IF m1.rc # ERROR_OK \/ count = c THEN m1
                      ELSE WriteWalk(m1, i + 1, buf, 0, count - size)
             ELSE WriteWalk(m, i + 1, buf, offset - size, count - size)

\* variant of the padding: the appended byte is 0 instead of 0xFF
PaddedBuffer_ZeroPad(buffer, count) ==
    IF count % 2 = 1
    THEN [data |-> SubSeq(buffer, 1, count) \o <<0>>, pos |-> 0]
    ELSE [data |-> buffer, pos |-> 0]

\* the padding of an odd count: new_buffer, or the caller's buffer
PaddedBuffer(buffer, count) ==
    IF count % 2 = 1
    THEN [data |-> SubSeq(buffer, 1, count) \o <<255>>, pos |-> 0]
    ELSE [data |-> buffer, pos |-> 0]

\* variant of at32x_write: an odd offset is rounded down to the half-word
\* that holds it instead of being refused
at32x_write_RoundDown(m, buffer, offset, count) ==
    IF ~m.halted THEN [m EXCEPT !.rc = ERROR_TARGET_NOT_HALTED]
    ELSE IF count % 2 = 1 /\ ~m.env.mallocOk THEN [m EXCEPT !.rc = ERROR_FAIL]
    ELSE LET buf == PaddedBuffer(buffer, count)
             cnt == IF count % 2 = 1 THEN count + 1 ELSE count
         IN  WriteWalk([m EXCEPT !.rc = ERROR_OK, !.handed = buf.data,
                                 !.padded = cnt],
                       0, buf, offset - (offset % 2), cnt)

at32x_write(m, buffer, offset, count) ==
    IF ~m.halted THEN [m EXCEPT !.rc = ERROR_TARGET_NOT_HALTED]
    ELSE IF offset % 2 = 1 THEN [m EXCEPT !.rc = ERROR_FLASH_DST_BREAKS_ALIGNMENT]
    ELSE IF count % 2 = 1 /\ ~m.env.mallocOk THEN [m EXCEPT !.rc = ERROR_FAIL]
    ELSE LET buf == PaddedBuffer(buffer, count)
             cnt == IF count % 2 = 1 THEN count + 1 ELSE count
         IN  WriteWalk([m EXCEPT !.rc = ERROR_OK, !.handed = buf.data,
                                 !.padded = cnt],
                       0, buf, offset, cnt)

(* --------------------------- option-byte manager ---------------------- *)
\* target_read_u32 of the option word at usd_addr + 4 * j; m.word is the
\* value read, as its four bytes, least significant first
target_read_u32(m, j) ==
    IF NextFails(m)
    THEN Logged(m, "r32", USD_ADDR + 4 * j, 0, IoErr(Len(m.log) + 1), 1)
    ELSE [Logged(m, "r32", USD_ADDR + 4 * j, 0, ERROR_OK, 1)
             EXCEPT !.word = <<m.opt[4 * j], m.opt[4 * j + 1],
                               m.opt[4 * j + 2], m.opt[4 * j + 3]>>]

\* the two low bytes of the word: usd_data & 0xFFFF
UsdPair_Adjacent(word) == <<word[1], word[2]>>

\* ((usd_data >> 8) & 0xFF00) | (usd_data & 0xFF), as its two bytes
UsdPair(word) == <<word[1], word[3]>>

at32x_read_usd_data(m) ==
    LET m1 == target_read_u32(m, 0)
        m2 == ERR_CHECK(m1, LAMBDA x :
                target_read_u32([x EXCEPT !.usd_data.fap = x.word[1],
                                          !.usd_data.ssb = x.word[3]], 1))
        m3 == ERR_CHECK(m2, LAMBDA x :
                target_read_u32([x EXCEPT !.usd_data.data =
                                     x.word[3] * 256 + x.word[1]], 2))
        m4 == ERR_CHECK(m3, LAMBDA x :
                target_read_u32([x EXCEPT !.usd_data.protection =
                                     UsdPair(x.word) \o <<0, 0>>], 3))
    IN  ERR_CHECK(m4, LAMBDA x :
            [x EXCEPT !.usd_data.protection =
                 <<x.usd_data.protection[1], x.usd_data.protection[2]>>
                     \o UsdPair(x.word)])

at32x_usd_unlock(m) ==
    ERR_CHECK(sub_bank_write_reg(m, 0, EFC_USD_UNLOCK, KEY1),
              LAMBDA x : sub_bank_write_reg(x, 0, EFC_USD_UNLOCK, KEY2))

\* variant of at32x_erase_usd_data: the option-byte keys are written before
\* the main-array keys
at32x_erase_usd_data_UsdKeysFirst(m) ==
    LET op == EFCCTRL_USDERS + EFCCTRL_USDULKS
        m0 == at32x_read_usd_data(m)
        m1 == at32x_usd_unlock(m0)
        m2 == ERR_CHECK(m1, LAMBDA x : at32x_flash_unlock(x, 0))
        m3 == ERR_CHECK(m2, LAMBDA x : sub_bank_write_reg(x, 0, EFC_CTRL, op))
        m4 == ERR_CHECK(m3, LAMBDA x :
                sub_bank_write_reg(x, 0, EFC_CTRL, op + EFCCTRL_ERSTR))
    IN  ERR_CHECK(m4, LAMBDA x :
            at32x_wait_status_busy(x, 0, FLASH_SECTOR_ERASE_TIMEOUT))

at32x_erase_usd_data(m) ==
    LET op == EFCCTRL_USDERS + EFCCTRL_USDULKS
        m0 == at32x_read_usd_data(m)
        m1 == at32x_flash_unlock(m0, 0)
        m2 == ERR_CHECK(m1, LAMBDA x : at32x_usd_unlock(x))
        m3 == ERR_CHECK(m2, LAMBDA x : sub_bank_write_reg(x, 0, EFC_CTRL, op))
        m4 == ERR_CHECK(m3, LAMBDA x :
                sub_bank_write_reg(x, 0, EFC_CTRL, op + EFCCTRL_ERSTR))
    IN  ERR_CHECK(m4, LAMBDA x :
            at32x_wait_status_busy(x, 0, FLASH_SECTOR_ERASE_TIMEOUT))

\* the 16 bytes target_buffer_set_u16 builds from the record
UsdBuffer(u) ==
    <<u.fap, 0, u.ssb, 0, u.data % 256, 0, (u.data \div 256) % 256, 0,
      u.protection[1], 0, u.protection[2], 0,
      u.protection[3], 0, u.protection[4], 0>>

\* variant of at32x_write_usd_data: when no working area is to be had the
\* first half-word of the record is written by itself
at32x_write_usd_data_HalfWord(m) ==
    LET m1 == at32x_flash_unlock(m, 0)
        m2 == ERR_CHECK(m1, LAMBDA x : at32x_usd_unlock(x))
        m3 == ERR_CHECK(m2, LAMBDA x :
                sub_bank_write_reg(x, 0, EFC_CTRL, EFCCTRL_USDPRGM + EFCCTRL_USDULKS))
        m4 == ERR_CHECK(m3, LAMBDA x :
                Let(at32x_write_block(x, 0, [data |-> UsdBuffer(x.usd_data), pos |-> 0],
                                      USD_ADDR, 8),
                    LAMBDA w : IF w.rc = ERROR_TARGET_RESOURCE_NOT_AVAILABLE
                               THEN target_write_u16(w, USD_ADDR, w.usd_data.fap)
                               ELSE w))
    IN  ERR_CHECK(m4, LAMBDA x : sub_bank_write_reg(x, 0, EFC_CTRL, EFCCTRL_OPLK))

at32x_write_usd_data(m) ==
    LET m1 == at32x_flash_unlock(m, 0)
        m2 == ERR_CHECK(m1, LAMBDA x : at32x_usd_unlock(x))
        m3 == ERR_CHECK(m2, LAMBDA x :
                sub_bank_write_reg(x, 0, EFC_CTRL, EFCCTRL_USDPRGM + EFCCTRL_USDULKS))
        m4 == ERR_CHECK(m3, LAMBDA x :
                at32x_write_block(x, 0, [data |-> UsdBuffer(x.usd_data), pos |-> 0],
                                  USD_ADDR, 8))
    IN  ERR_CHECK(m4, LAMBDA x : sub_bank_write_reg(x, 0, EFC_CTRL, EFCCTRL_OPLK))

\* 2^k for a bit number k of a byte
Pow2(k) == CASE k = 0 -> 1 [] k = 1 -> 2 [] k = 2 -> 4 [] k = 3 -> 8
             [] k = 4 -> 16 [] k = 5 -> 32 [] k = 6 -> 64 [] OTHER -> 128

\* the change made to the whole byte of the bitmap that holds bit i
ProtectBit_WholeByte(p, set, i) ==
    [p EXCEPT ![(i \div 8) + 1] = IF set THEN 0 ELSE 255]

\* protection &= ~(1 << i) when set, protection |= (1 << i) otherwise
ProtectBit(p, set, i) ==
    LET j == (i \div 8) + 1
        bit == Pow2(i % 8)
        has == HasBit(p[j], bit)
    IN  [p EXCEPT ![j] = IF set THEN (IF has THEN @ - bit ELSE @)
                         ELSE (IF has THEN @ ELSE @ + bit)]

RECURSIVE ProtectLoop(_, _, _, _)
ProtectLoop(p, set, i, last) ==
    IF i > last THEN p ELSE ProtectLoop(ProtectBit(p, set, i), set, i + 1, last)

\* variant of at32x_protect: the target state is not looked at
at32x_protect_NoHaltCheck(m, set, first, last) ==
    ERR_CHECK(at32x_erase_usd_data(m), LAMBDA x :
        at32x_write_usd_data(
            [x EXCEPT !.usd_data.protection = ProtectLoop(@, set, first, last)]))

at32x_protect(m, set, first, last) ==
    IF ~m.halted THEN [m EXCEPT !.rc = ERROR_TARGET_NOT_HALTED]
    ELSE ERR_CHECK(at32x_erase_usd_data(m), LAMBDA x :
            at32x_write_usd_data(
                [x EXCEPT !.usd_data.protection = ProtectLoop(@, set, first, last)]))

ACCESS_PROTECTION_DISABLED == 165

\* variant of the command handler: a failed option-byte erase is logged
\* and the handler carries on with the write
at32x_handle_disable_access_protection_command_IgnoreErase(m) ==
    IF ~m.halted THEN [m EXCEPT !.rc = ERROR_TARGET_NOT_HALTED]
    ELSE LET m1 == at32x_erase_usd_data(m)
         IN  [at32x_write_usd_data(
                 [m1 EXCEPT !.rc = ERROR_OK,
                            !.usd_data.fap = ACCESS_PROTECTION_DISABLED])
              EXCEPT !.rc = ERROR_OK]

at32x_handle_disable_access_protection_command(m) ==
    IF ~m.halted THEN [m EXCEPT !.rc = ERROR_TARGET_NOT_HALTED]
    ELSE LET m1 == at32x_erase_usd_data(m)
         IN  IF m1.rc # ERROR_OK THEN [m1 EXCEPT !.rc = ERROR_OK]
             ELSE [at32x_write_usd_data(
                      [m1 EXCEPT !.usd_data.fap = ACCESS_PROTECTION_DISABLED])
                   EXCEPT !.rc = ERROR_OK]

(* ------------------------- the catalog and the probe ------------------ *)
SPIM_BASE_ADDR == 138412032
AT32_PRODUCT_ID_ADDR == -536600576

\* the struct mcu_type_info objects, by the name of the object
mcu_type_info ==
    [t \in {"at32f403", "at32f413", "at32f415", "at32f403a", "at32f407",
            "at32f421", "at32f425", "at32l021", "at32wb415", "at32f435",
            "at32f437", "at32f423"} |->
        CASE t \in {"at32f435", "at32f437"} ->
                [flash_reg |-> 1073888256, usd_addr |-> 536854528]
          [] t = "at32f423" ->
                [flash_reg |-> 1073888256, usd_addr |-> 536868864]
          [] OTHER ->
                [flash_reg |-> 1073881088, usd_addr |-> 536868864]]

\* the table of the known chips, its closing { 0 } included; a pointer into
\* the table is the position of the entry, the null pointer is 0; a pid is
\* the int32 pattern of the uint32
known_artery_chips ==
    <<
     [pid |-> 1879376450, flash_size_kb |-> 256, sector_size |-> 2048, type |-> "at32f403a", suffix |-> "CCT7"],
     [pid |-> 1879376451, flash_size_kb |-> 256, sector_size |-> 2048, type |-> "at32f403a", suffix |-> "CCU7"],
     [pid |-> 1879376591, flash_size_kb |-> 512, sector_size |-> 2048, type |-> "at32f403a", suffix |-> "CET7"],
     [pid |-> 1879376592, flash_size_kb |-> 512, sector_size |-> 2048, type |-> "at32f403a", suffix |-> "CEU7"],
     [pid |-> 1879376710, flash_size_kb |-> 1024, sector_size |-> 2048, type |-> "at32f403a", suffix |-> "CGT7"],
     [pid |-> 1879376711, flash_size_kb |-> 1024, sector_size |-> 2048, type |-> "at32f403a", suffix |-> "CGU7"],
     [pid |-> 1879376449, flash_size_kb |-> 256, sector_size |-> 2048, type |-> "at32f403a", suffix |-> "RCT7"],
     [pid |-> 1879376590, flash_size_kb |-> 512, sector_size |-> 2048, type |-> "at32f403a", suffix |-> "RET7"],
     [pid |-> 1879376709, flash_size_kb |-> 1024, sector_size |-> 2048, type |-> "at32f403a", suffix |-> "RGT7"],
     [pid |-> 1879376448, flash_size_kb |-> 256, sector_size |-> 2048, type |-> "at32f403a", suffix |-> "VCT7"],
     [pid |-> 1879376589, flash_size_kb |-> 512, sector_size |-> 2048, type |-> "at32f403a", suffix |-> "VET7"],
     [pid |-> 1879376708, flash_size_kb |-> 1024, sector_size |-> 2048, type |-> "at32f403a", suffix |-> "VGT7"],
     [pid |-> -268106923, flash_size_kb |-> 1024, sector_size |-> 2048, type |-> "at32f403a", suffix |-> "VGW"],
     [pid |-> 1879245263, flash_size_kb |-> 128, sector_size |-> 1024, type |-> "at32f403", suffix |-> "CBT6"],
     [pid |-> 1879376451, flash_size_kb |-> 256, sector_size |-> 2048, type |-> "at32f403", suffix |-> "CCT6"],
     [pid |-> 1879376462, flash_size_kb |-> 256, sector_size |-> 2048, type |-> "at32f403", suffix |-> "CCU6"],
     [pid |-> 1879376587, flash_size_kb |-> 512, sector_size |-> 2048, type |-> "at32f403", suffix |-> "CET6"],
     [pid |-> 1879376589, flash_size_kb |-> 512, sector_size |-> 2048, type |-> "at32f403", suffix |-> "CEU6"],
     [pid |-> 1879376711, flash_size_kb |-> 1024, sector_size |-> 2048, type |-> "at32f403", suffix |-> "CGT6"],
     [pid |-> 1879376716, flash_size_kb |-> 1024, sector_size |-> 2048, type |-> "at32f403", suffix |-> "CGU6"],
     [pid |-> 1879376450, flash_size_kb |-> 256, sector_size |-> 2048, type |-> "at32f403", suffix |-> "RCT6"],
     [pid |-> 1879376586, flash_size_kb |-> 512, sector_size |-> 2048, type |-> "at32f403", suffix |-> "RET6"],
     [pid |-> 1879376710, flash_size_kb |-> 1024, sector_size |-> 2048, type |-> "at32f403", suffix |-> "RGT6"],
     [pid |-> 1879376449, flash_size_kb |-> 256, sector_size |-> 2048, type |-> "at32f403", suffix |-> "VCT6"],
     [pid |-> 1879376585, flash_size_kb |-> 512, sector_size |-> 2048, type |-> "at32f403", suffix |-> "VET6"],
     [pid |-> 1879376709, flash_size_kb |-> 1024, sector_size |-> 2048, type |-> "at32f403", suffix |-> "VGT6"],
     [pid |-> 1879376448, flash_size_kb |-> 256, sector_size |-> 2048, type |-> "at32f403", suffix |-> "ZCT6"],
     [pid |-> 1879376584, flash_size_kb |-> 512, sector_size |-> 2048, type |-> "at32f403", suffix |-> "ZET6"],
     [pid |-> 1879376708, flash_size_kb |-> 1024, sector_size |-> 2048, type |-> "at32f403", suffix |-> "ZGT6"],
     [pid |-> 1879376468, flash_size_kb |-> 256, sector_size |-> 2048, type |-> "at32f407", suffix |-> "AVCT7"],
     [pid |-> 1879376723, flash_size_kb |-> 1024, sector_size |-> 2048, type |-> "at32f407", suffix |-> "AVGT7"],
     [pid |-> 1879376458, flash_size_kb |-> 256, sector_size |-> 2048, type |-> "at32f407", suffix |-> "RCT7"],
     [pid |-> 1879376594, flash_size_kb |-> 512, sector_size |-> 2048, type |-> "at32f407", suffix |-> "RET7"],
     [pid |-> 1879376716, flash_size_kb |-> 1024, sector_size |-> 2048, type |-> "at32f407", suffix |-> "RGT7"],
     [pid |-> 1879376457, flash_size_kb |-> 256, sector_size |-> 2048, type |-> "at32f407", suffix |-> "VCT7"],
     [pid |-> 1879376593, flash_size_kb |-> 512, sector_size |-> 2048, type |-> "at32f407", suffix |-> "VET7"],
     [pid |-> 1879376715, flash_size_kb |-> 1024, sector_size |-> 2048, type |-> "at32f407", suffix |-> "VGT7"],
     [pid |-> 1879245062, flash_size_kb |-> 64, sector_size |-> 1024, type |-> "at32f413", suffix |-> "C8T7"],
     [pid |-> 1879245251, flash_size_kb |-> 128, sector_size |-> 1024, type |-> "at32f413", suffix |-> "CBT7"],
     [pid |-> 1879245258, flash_size_kb |-> 128, sector_size |-> 1024, type |-> "at32f413", suffix |-> "CBU7"],
     [pid |-> 1879245378, flash_size_kb |-> 256, sector_size |-> 2048, type |-> "at32f413", suffix |-> "CCT7"],
     [pid |-> 1879245383, flash_size_kb |-> 256, sector_size |-> 2048, type |-> "at32f413", suffix |-> "CCU7"],
     [pid |-> 1879245253, flash_size_kb |-> 128, sector_size |-> 1024, type |-> "at32f413", suffix |-> "KBU7-4"],
     [pid |-> 1879245380, flash_size_kb |-> 256, sector_size |-> 2048, type |-> "at32f413", suffix |-> "KCU7-4"],
     [pid |-> 1879245249, flash_size_kb |-> 128, sector_size |-> 1024, type |-> "at32f413", suffix |-> "RBT7"],
     [pid |-> 1879245376, flash_size_kb |-> 256, sector_size |-> 2048, type |-> "at32f413", suffix |-> "RCT7"],
     [pid |-> 1879245259, flash_size_kb |-> 128, sector_size |-> 1024, type |-> "at32f413", suffix |-> "TBU7"],
     [pid |-> 1879245065, flash_size_kb |-> 64, sector_size |-> 1024, type |-> "at32f415", suffix |-> "C8T7"],
     [pid |-> 1879245253, flash_size_kb |-> 128, sector_size |-> 1024, type |-> "at32f415", suffix |-> "CBT7"],
     [pid |-> 1879245261, flash_size_kb |-> 128, sector_size |-> 1024, type |-> "at32f415", suffix |-> "CBU7"],
     [pid |-> 1879245377, flash_size_kb |-> 256, sector_size |-> 2048, type |-> "at32f415", suffix |-> "CCT7"],
     [pid |-> 1879245388, flash_size_kb |-> 256, sector_size |-> 2048, type |-> "at32f415", suffix |-> "CCU7"],
     [pid |-> 1879245066, flash_size_kb |-> 64, sector_size |-> 1024, type |-> "at32f415", suffix |-> "K8U7-4"],
     [pid |-> 1879245254, flash_size_kb |-> 128, sector_size |-> 1024, type |-> "at32f415", suffix |-> "KBU7-4"],
     [pid |-> 1879245378, flash_size_kb |-> 256, sector_size |-> 2048, type |-> "at32f415", suffix |-> "KCU7-4"],
     [pid |-> 1879245067, flash_size_kb |-> 64, sector_size |-> 1024, type |-> "at32f415", suffix |-> "R8T7-7"],
     [pid |-> 1879245064, flash_size_kb |-> 64, sector_size |-> 1024, type |-> "at32f415", suffix |-> "R8T7"],
     [pid |-> 1879245255, flash_size_kb |-> 128, sector_size |-> 1024, type |-> "at32f415", suffix |-> "RBT7-7"],
     [pid |-> 1879245252, flash_size_kb |-> 128, sector_size |-> 1024, type |-> "at32f415", suffix |-> "RBT7"],
     [pid |-> 1879245263, flash_size_kb |-> 128, sector_size |-> 1024, type |-> "at32f415", suffix |-> "RBW"],
     [pid |-> 1879245379, flash_size_kb |-> 256, sector_size |-> 2048, type |-> "at32f415", suffix |-> "RCT7-7"],
     [pid |-> 1879245376, flash_size_kb |-> 256, sector_size |-> 2048, type |-> "at32f415", suffix |-> "RCT7"],
     [pid |-> 1879245390, flash_size_kb |-> 256, sector_size |-> 2048, type |-> "at32f415", suffix |-> "RCW"],
     [pid |-> 1342242828, flash_size_kb |-> 16, sector_size |-> 1024, type |-> "at32f421", suffix |-> "C4T7"],
     [pid |-> 1342308486, flash_size_kb |-> 32, sector_size |-> 1024, type |-> "at32f421", suffix |-> "C6T7"],
     [pid |-> 1342308608, flash_size_kb |-> 64, sector_size |-> 1024, type |-> "at32f421", suffix |-> "C8T7"],
     [pid |-> -805175040, flash_size_kb |-> 64, sector_size |-> 1024, type |-> "at32f421", suffix |-> "C8W-YY"],
     [pid |-> 1342308631, flash_size_kb |-> 64, sector_size |-> 1024, type |-> "at32f421", suffix |-> "C8W"],
     [pid |-> 1342242833, flash_size_kb |-> 16, sector_size |-> 1024, type |-> "at32f421", suffix |-> "F4P7"],
     [pid |-> 1342242832, flash_size_kb |-> 16, sector_size |-> 1024, type |-> "at32f421", suffix |-> "F4U7"],
     [pid |-> 1342308491, flash_size_kb |-> 32, sector_size |-> 1024, type |-> "at32f421", suffix |-> "F6P7"],
     [pid |-> 1342308490, flash_size_kb |-> 32, sector_size |-> 1024, type |-> "at32f421", suffix |-> "F6U7"],
     [pid |-> 1342308613, flash_size_kb |-> 64, sector_size |-> 1024, type |-> "at32f421", suffix |-> "F8P7"],
     [pid |-> 1342308612, flash_size_kb |-> 64, sector_size |-> 1024, type |-> "at32f421", suffix |-> "F8U7"],
     [pid |-> 1342242836, flash_size_kb |-> 16, sector_size |-> 1024, type |-> "at32f421", suffix |-> "G4U7"],
     [pid |-> 1342308499, flash_size_kb |-> 32, sector_size |-> 1024, type |-> "at32f421", suffix |-> "G6U7"],
     [pid |-> 1342308626, flash_size_kb |-> 64, sector_size |-> 1024, type |-> "at32f421", suffix |-> "G8U7"],
     [pid |-> 1342242829, flash_size_kb |-> 16, sector_size |-> 1024, type |-> "at32f421", suffix |-> "K4T7"],
     [pid |-> 1342242831, flash_size_kb |-> 16, sector_size |-> 1024, type |-> "at32f421", suffix |-> "K4U7-4"],
     [pid |-> 1342242830, flash_size_kb |-> 16, sector_size |-> 1024, type |-> "at32f421", suffix |-> "K4U7"],
     [pid |-> 1342308487, flash_size_kb |-> 32, sector_size |-> 1024, type |-> "at32f421", suffix |-> "K6T7"],
     [pid |-> 1342308489, flash_size_kb |-> 32, sector_size |-> 1024, type |-> "at32f421", suffix |-> "K6U7-4"],
     [pid |-> 1342308488, flash_size_kb |-> 32, sector_size |-> 1024, type |-> "at32f421", suffix |-> "K6U7"],
     [pid |-> 1342308609, flash_size_kb |-> 64, sector_size |-> 1024, type |-> "at32f421", suffix |-> "K8T7"],
     [pid |-> 1342308611, flash_size_kb |-> 64, sector_size |-> 1024, type |-> "at32f421", suffix |-> "K8U7-4"],
     [pid |-> 1342308610, flash_size_kb |-> 64, sector_size |-> 1024, type |-> "at32f421", suffix |-> "K8U7"],
     [pid |-> 1342242838, flash_size_kb |-> 16, sector_size |-> 1024, type |-> "at32f421", suffix |-> "PF4P7"],
     [pid |-> 1342308629, flash_size_kb |-> 64, sector_size |-> 1024, type |-> "at32f421", suffix |-> "PF8P7"],
     [pid |-> 1879253259, flash_size_kb |-> 64, sector_size |-> 1024, type |-> "at32f423", suffix |-> "C8T7"],
     [pid |-> 1879253262, flash_size_kb |-> 64, sector_size |-> 1024, type |-> "at32f423", suffix |-> "C8U7"],
     [pid |-> 1879712202, flash_size_kb |-> 128, sector_size |-> 1024, type |-> "at32f423", suffix |-> "CBT7"],
     [pid |-> 1879712205, flash_size_kb |-> 128, sector_size |-> 1024, type |-> "at32f423", suffix |-> "CBU7"],
     [pid |-> 1879716425, flash_size_kb |-> 256, sector_size |-> 2048, type |-> "at32f423", suffix |-> "CCT7"],
     [pid |-> 1879716428, flash_size_kb |-> 256, sector_size |-> 2048, type |-> "at32f423", suffix |-> "CCU7"],
     [pid |-> 1879253269, flash_size_kb |-> 64, sector_size |-> 1024, type |-> "at32f423", suffix |-> "K8U7-4"],
     [pid |-> 1879712212, flash_size_kb |-> 128, sector_size |-> 1024, type |-> "at32f423", suffix |-> "KBU7-4"],
     [pid |-> 1879716435, flash_size_kb |-> 256, sector_size |-> 2048, type |-> "at32f423", suffix |-> "KCU7-4"],
     [pid |-> 1879253256, flash_size_kb |-> 64, sector_size |-> 1024, type |-> "at32f423", suffix |-> "R8T7-7"],
     [pid |-> 1879253253, flash_size_kb |-> 64, sector_size |-> 1024, type |-> "at32f423", suffix |-> "R8T7"],
     [pid |-> 1879712199, flash_size_kb |-> 128, sector_size |-> 1024, type |-> "at32f423", suffix |-> "RBT7-7"],
     [pid |-> 1879712196, flash_size_kb |-> 128, sector_size |-> 1024, type |-> "at32f423", suffix |-> "RBT7"],
     [pid |-> 1879716422, flash_size_kb |-> 256, sector_size |-> 2048, type |-> "at32f423", suffix |-> "RCT7-7"],
     [pid |-> 1879716419, flash_size_kb |-> 256, sector_size |-> 2048, type |-> "at32f423", suffix |-> "RCT7"],
     [pid |-> 1879253266, flash_size_kb |-> 64, sector_size |-> 1024, type |-> "at32f423", suffix |-> "T8U7"],
     [pid |-> 1879712209, flash_size_kb |-> 128, sector_size |-> 1024, type |-> "at32f423", suffix |-> "TBU7"],
     [pid |-> 1879716432, flash_size_kb |-> 256, sector_size |-> 2048, type |-> "at32f423", suffix |-> "TCU7"],
     [pid |-> 1879253250, flash_size_kb |-> 64, sector_size |-> 1024, type |-> "at32f423", suffix |-> "V8T7"],
     [pid |-> 1879712193, flash_size_kb |-> 128, sector_size |-> 1024, type |-> "at32f423", suffix |-> "VBT7"],
     [pid |-> 1879716416, flash_size_kb |-> 256, sector_size |-> 2048, type |-> "at32f423", suffix |-> "VCT7"],
     [pid |-> 1342775431, flash_size_kb |-> 32, sector_size |-> 1024, type |-> "at32f425", suffix |-> "C6T7"],
     [pid |-> 1342775434, flash_size_kb |-> 32, sector_size |-> 1024, type |-> "at32f425", suffix |-> "C6U7"],
     [pid |-> 1342775558, flash_size_kb |-> 64, sector_size |-> 1024, type |-> "at32f425", suffix |-> "C8T7"],
     [pid |-> 1342775561, flash_size_kb |-> 64, sector_size |-> 1024, type |-> "at32f425", suffix |-> "C8U7"],
     [pid |-> 1342775443, flash_size_kb |-> 32, sector_size |-> 1024, type |-> "at32f425", suffix |-> "F6P7"],
     [pid |-> 1342775570, flash_size_kb |-> 64, sector_size |-> 1024, type |-> "at32f425", suffix |-> "F8P7"],
     [pid |-> 1342775446, flash_size_kb |-> 32, sector_size |-> 1024, type |-> "at32f425", suffix |-> "G6U7"],
     [pid |-> 1342775573, flash_size_kb |-> 64, sector_size |-> 1024, type |-> "at32f425", suffix |-> "G8U7"],
     [pid |-> 1342775437, flash_size_kb |-> 32, sector_size |-> 1024, type |-> "at32f425", suffix |-> "K6T7"],
     [pid |-> 1342775440, flash_size_kb |-> 32, sector_size |-> 1024, type |-> "at32f425", suffix |-> "K6U7-4"],
     [pid |-> 1342775564, flash_size_kb |-> 64, sector_size |-> 1024, type |-> "at32f425", suffix |-> "K8T7"],
     [pid |-> 1342775567, flash_size_kb |-> 64, sector_size |-> 1024, type |-> "at32f425", suffix |-> "K8U7-4"],
     [pid |-> 1342775428, flash_size_kb |-> 32, sector_size |-> 1024, type |-> "at32f425", suffix |-> "R6T7-7"],
     [pid |-> 1342775425, flash_size_kb |-> 32, sector_size |-> 1024, type |-> "at32f425", suffix |-> "R6T7"],
     [pid |-> 1342775555, flash_size_kb |-> 64, sector_size |-> 1024, type |-> "at32f425", suffix |-> "R8T7-7"],
     [pid |-> 1342775552, flash_size_kb |-> 64, sector_size |-> 1024, type |-> "at32f425", suffix |-> "R8T7"],
     [pid |-> 1879590042, flash_size_kb |-> 192, sector_size |-> 4096, type |-> "at32f435", suffix |-> "CCT7-W"],
     [pid |-> 1879585355, flash_size_kb |-> 256, sector_size |-> 2048, type |-> "at32f435", suffix |-> "CCT7"],
     [pid |-> 1879590045, flash_size_kb |-> 192, sector_size |-> 4096, type |-> "at32f435", suffix |-> "CCU7-W"],
     [pid |-> 1879585358, flash_size_kb |-> 256, sector_size |-> 2048, type |-> "at32f435", suffix |-> "CCU7"],
     [pid |-> 1879590105, flash_size_kb |-> 960, sector_size |-> 4096, type |-> "at32f435", suffix |-> "CGT7-W"],
     [pid |-> 1879585610, flash_size_kb |-> 1024, sector_size |-> 2048, type |-> "at32f435", suffix |-> "CGT7"],
     [pid |-> 1879590108, flash_size_kb |-> 960, sector_size |-> 4096, type |-> "at32f435", suffix |-> "CGU7-W"],
     [pid |-> 1879585613, flash_size_kb |-> 1024, sector_size |-> 2048, type |-> "at32f435", suffix |-> "CGU7"],
     [pid |-> 1879590232, flash_size_kb |-> 4032, sector_size |-> 4096, type |-> "at32f435", suffix |-> "CMT7-E"],
     [pid |-> 1879590217, flash_size_kb |-> 4032, sector_size |-> 4096, type |-> "at32f435", suffix |-> "CMT7"],
     [pid |-> 1879590235, flash_size_kb |-> 4032, sector_size |-> 4096, type |-> "at32f435", suffix |-> "CMU7-E"],
     [pid |-> 1879590220, flash_size_kb |-> 4032, sector_size |-> 4096, type |-> "at32f435", suffix |-> "CMU7"],
     [pid |-> 1879585352, flash_size_kb |-> 256, sector_size |-> 2048, type |-> "at32f435", suffix |-> "RCT7"],
     [pid |-> 1879585607, flash_size_kb |-> 1024, sector_size |-> 2048, type |-> "at32f435", suffix |-> "RGT7"],
     [pid |-> 1879590214, flash_size_kb |-> 4032, sector_size |-> 4096, type |-> "at32f435", suffix |-> "RMT7"],
     [pid |-> 1879585349, flash_size_kb |-> 256, sector_size |-> 2048, type |-> "at32f435", suffix |-> "VCT7"],
     [pid |-> 1879585604, flash_size_kb |-> 1024, sector_size |-> 2048, type |-> "at32f435", suffix |-> "VGT7"],
     [pid |-> 1879590211, flash_size_kb |-> 4032, sector_size |-> 4096, type |-> "at32f435", suffix |-> "VMT7"],
     [pid |-> 1879585346, flash_size_kb |-> 256, sector_size |-> 2048, type |-> "at32f435", suffix |-> "ZCT7"],
     [pid |-> 1879585601, flash_size_kb |-> 1024, sector_size |-> 2048, type |-> "at32f435", suffix |-> "ZGT7"],
     [pid |-> 1879590208, flash_size_kb |-> 4032, sector_size |-> 4096, type |-> "at32f435", suffix |-> "ZMT7"],
     [pid |-> 1879585367, flash_size_kb |-> 256, sector_size |-> 2048, type |-> "at32f437", suffix |-> "RCT7"],
     [pid |-> 1879585622, flash_size_kb |-> 1024, sector_size |-> 2048, type |-> "at32f437", suffix |-> "RGT7"],
     [pid |-> 1879590229, flash_size_kb |-> 4032, sector_size |-> 4096, type |-> "at32f437", suffix |-> "RMT7"],
     [pid |-> 1879585364, flash_size_kb |-> 256, sector_size |-> 2048, type |-> "at32f437", suffix |-> "VCT7"],
     [pid |-> 1879585619, flash_size_kb |-> 1024, sector_size |-> 2048, type |-> "at32f437", suffix |-> "VGT7"],
     [pid |-> 1879590226, flash_size_kb |-> 4032, sector_size |-> 4096, type |-> "at32f437", suffix |-> "VMT7"],
     [pid |-> 1879585361, flash_size_kb |-> 256, sector_size |-> 2048, type |-> "at32f437", suffix |-> "ZCT7"],
     [pid |-> 1879585616, flash_size_kb |-> 1024, sector_size |-> 2048, type |-> "at32f437", suffix |-> "ZGT7"],
     [pid |-> 1879590223, flash_size_kb |-> 4032, sector_size |-> 4096, type |-> "at32f437", suffix |-> "ZMT7"],
     [pid |-> 268509190, flash_size_kb |-> 16, sector_size |-> 1024, type |-> "at32l021", suffix |-> "C4T7"],
     [pid |-> 268509325, flash_size_kb |-> 32, sector_size |-> 1024, type |-> "at32l021", suffix |-> "C6T7"],
     [pid |-> 268509460, flash_size_kb |-> 64, sector_size |-> 1024, type |-> "at32l021", suffix |-> "C8T7"],
     [pid |-> 268509185, flash_size_kb |-> 16, sector_size |-> 1024, type |-> "at32l021", suffix |-> "F4P7"],
     [pid |-> 268509186, flash_size_kb |-> 16, sector_size |-> 1024, type |-> "at32l021", suffix |-> "F4U7"],
     [pid |-> 268509320, flash_size_kb |-> 32, sector_size |-> 1024, type |-> "at32l021", suffix |-> "F6P7"],
     [pid |-> 268509321, flash_size_kb |-> 32, sector_size |-> 1024, type |-> "at32l021", suffix |-> "F6U7"],
     [pid |-> 268509455, flash_size_kb |-> 64, sector_size |-> 1024, type |-> "at32l021", suffix |-> "F8P7"],
     [pid |-> 268509456, flash_size_kb |-> 64, sector_size |-> 1024, type |-> "at32l021", suffix |-> "F8U7"],
     [pid |-> 268509184, flash_size_kb |-> 16, sector_size |-> 1024, type |-> "at32l021", suffix |-> "G4U7"],
     [pid |-> 268509319, flash_size_kb |-> 32, sector_size |-> 1024, type |-> "at32l021", suffix |-> "G6U7"],
     [pid |-> 268509454, flash_size_kb |-> 64, sector_size |-> 1024, type |-> "at32l021", suffix |-> "G8U7"],
     [pid |-> 268509189, flash_size_kb |-> 16, sector_size |-> 1024, type |-> "at32l021", suffix |-> "K4T7"],
     [pid |-> 268509187, flash_size_kb |-> 16, sector_size |-> 1024, type |-> "at32l021", suffix |-> "K4U7-4"],
     [pid |-> 268509188, flash_size_kb |-> 16, sector_size |-> 1024, type |-> "at32l021", suffix |-> "K4U7"],
     [pid |-> 268509324, flash_size_kb |-> 32, sector_size |-> 1024, type |-> "at32l021", suffix |-> "K6T7"],
     [pid |-> 268509322, flash_size_kb |-> 32, sector_size |-> 1024, type |-> "at32l021", suffix |-> "K6U7-4"],
     [pid |-> 268509323, flash_size_kb |-> 32, sector_size |-> 1024, type |-> "at32l021", suffix |-> "K6U7"],
     [pid |-> 268509459, flash_size_kb |-> 64, sector_size |-> 1024, type |-> "at32l021", suffix |-> "K8T7"],
     [pid |-> 268509457, flash_size_kb |-> 64, sector_size |-> 1024, type |-> "at32l021", suffix |-> "K8U7-4"],
     [pid |-> 268509458, flash_size_kb |-> 64, sector_size |-> 1024, type |-> "at32l021", suffix |-> "K8U7"],
     [pid |-> 1879245392, flash_size_kb |-> 256, sector_size |-> 2048, type |-> "at32wb415", suffix |-> "CCU7-7"],
     [pid |-> 0, flash_size_kb |-> 0, sector_size |-> 0, type |-> "", suffix |-> ""]
    >>

\* where the loop of artery_find_chip_from_id ends: the first entry whose
\* pid is 0
CatalogEnd ==
    LET table == known_artery_chips
        ends == {k \in DOMAIN table : table[k].pid = 0}
    IN  CHOOSE k \in ends : \A j \in ends : k <= j

\* the lookup returning the last entry of that pid
artery_find_chip_from_id_LastMatch(pid) ==
    LET table == known_artery_chips
        hits == {k \in 1..(CatalogEnd - 1) : table[k].pid = pid}
    IN  IF hits = {} THEN [rc |-> ERROR_FAIL, chip |-> 0]
        ELSE [rc |-> ERROR_OK, chip |-> CHOOSE k \in hits : \A j \in hits : k >= j]

\* the loop returns at the first entry before that whose pid is the one
\* looked for
artery_find_chip_from_id(pid) ==
    LET table == known_artery_chips
        hits == {k \in 1..(CatalogEnd - 1) : table[k].pid = pid}
    IN  IF hits = {} THEN [rc |-> ERROR_FAIL, chip |-> 0]
        ELSE [rc |-> ERROR_OK, chip |-> CHOOSE k \in hits : \A j \in hits : k <= j]

\* target_read_u32 stores 0 when the read fails
at32x_get_product_id(m) ==
    Let(target_read_status(m, AT32_PRODUCT_ID_ADDR, m.product_id, 1), LAMBDA m1 :
        [m1 EXCEPT !.at32x_info.pid = IF m1.rc = ERROR_OK THEN m1.val ELSE 0])

\* what a pin-configuration register holds when the call has not written it
GpioReset == 1145324612

\* the value register a holds: the last value the call wrote to it
RegValue(m, a) ==
    LET W == {i \in DOMAIN m.log :
                m.log[i].op = "w32" /\ m.log[i].a = a /\ m.log[i].rc = ERROR_OK}
    IN  IF W = {} THEN GpioReset
        ELSE m.log[CHOOSE i \in W : \A j \in W : j <= i].v

RECURSIVE Shl(_, _)
\* v << k
Shl(v, k) == IF k = 0 THEN v ELSE Shl(2 * v, k - 1)

\* read_val &= ~mask; read_val |= x << lo, for the mask of w bits from bit
\* lo, on int32 patterns
SetField(v, lo, w, x) ==
    IF lo + w = 32
    THEN (v % Shl(1, lo)) + (IF x >= Shl(1, w - 1) THEN x - Shl(1, w) ELSE x) * Shl(1, lo)
    ELSE v - ((v \div Shl(1, lo)) % Shl(1, w)) * Shl(1, lo) + x * Shl(1, lo)

\* target_read_u32 of register a, then target_write_u32 of what Cfg makes of
\* the value read
ReadModifyWrite(m, a, Cfg(_)) ==
    ERR_CHECK(target_read_status(m, a, RegValue(m, a), 1),
              LAMBDA x : target_write_u32(x, a, Cfg(x.val)))

at32x_init_spim(m) ==
    LET chip == known_artery_chips[m.at32x_info.chip]
        m0 == [m EXCEPT !.at32x_info.spim_info.sector_size = 4096,
                        !.at32x_info.sector_size = 4096,
                        !.at32x_info.flash_size = m.at32x_info.spim_info.flash_size,
                        !.sub_bank[0].size = m.at32x_info.spim_info.flash_size,
                        !.sub_bank[0].reg_base =
                            mcu_type_info[chip.type].flash_reg + 128]
        \* 0x40021018: enable gpio clock
        m1 == target_write_u32(m0, 1073877016, 13)
        \* 0x40010804: gpioa pa8
        m2 == ERR_CHECK(m1, LAMBDA x :
                ReadModifyWrite(x, 1073809412, LAMBDA v : SetField(v, 0, 4, 9)))
        \* 0x40010c00: gpiob pb1, pb6, pb7
        m3 == ERR_CHECK(m2, LAMBDA x :
                ReadModifyWrite(x, 1073810432,
                    LAMBDA v : SetField(SetField(v, 4, 4, 9), 24, 8, 153)))
        \* 0x40010c04: gpiob pb10, pb11, or 0x40010804: gpioa pa11, pa12
        m4 == ERR_CHECK(m3, LAMBDA x :
                IF x.at32x_info.spim_info.io_mux # 0
                THEN ReadModifyWrite(x, 1073810436, LAMBDA v : SetField(v, 8, 8, 153))
                ELSE ReadModifyWrite(x, 1073809412, LAMBDA v : SetField(v, 12, 8, 153)))
        \* enable spif: 0x4001001c <- 1 << 21, or 0x40010030 <- 9
        m5 == ERR_CHECK(m4, LAMBDA x :
                IF chip.type = "at32f403"
                THEN target_write_u32(x, 1073807388, 2097152)
                ELSE target_write_u32(x, 1073807408, 9))
        \* 0x40022088: flash type select
    IN  ERR_CHECK(m5, LAMBDA x :
            target_write_u32(x, 1073881224, x.at32x_info.spim_info.flash_type))

\* the resolver without the check of bank_addr
at32x_init_main_flash_AnyBase(m) ==
    LET chip == known_artery_chips[m.at32x_info.chip]
        type == mcu_type_info[chip.type]
        flash_size == Shl(chip.flash_size_kb, 10)
        sb == SubBankSplit(type.flash_reg, flash_size,
                           MainFlashThreshold(chip.flash_size_kb))
    IN  IF FALSE THEN [m EXCEPT !.rc = ERROR_FAIL]
        ELSE [m EXCEPT !.at32x_info.flash_size = flash_size,
                       !.at32x_info.sector_size = chip.sector_size % 65536,
                       !.at32x_info.usd_addr = type.usd_addr,
                       !.sub_bank[0].reg_base = sb[0].reg_base,
                       !.sub_bank[0].size = sb[0].size,
                       !.sub_bank[1].reg_base = sb[1].reg_base,
                       !.sub_bank[1].size = sb[1].size,
                       !.rc = ERROR_OK]

at32x_init_main_flash(m) ==
    LET chip == known_artery_chips[m.at32x_info.chip]
        type == mcu_type_info[chip.type]
        flash_size == Shl(chip.flash_size_kb, 10)
        sb == SubBankSplit(type.flash_reg, flash_size,
                           MainFlashThreshold(chip.flash_size_kb))
    IN  IF m.at32x_info.bank_addr # BANK1_BASE_ADDR THEN [m EXCEPT !.rc = ERROR_FAIL]
        ELSE [m EXCEPT !.at32x_info.flash_size = flash_size,
                       !.at32x_info.sector_size = chip.sector_size % 65536,
                       !.at32x_info.usd_addr = type.usd_addr,
                       !.sub_bank[0].reg_base = sb[0].reg_base,
                       !.sub_bank[0].size = sb[0].size,
                       !.sub_bank[1].reg_base = sb[1].reg_base,
                       !.sub_bank[1].size = sb[1].size,
                       !.rc = ERROR_OK]

\* at32_get_device_info from the chip lookup on: m1 is the state after
\* at32x_get_product_id returned ERROR_OK
DeviceInfoOf(m1) ==
    Let(artery_find_chip_from_id(m1.at32x_info.pid), LAMBDA found :
        IF found.rc # ERROR_OK THEN [m1 EXCEPT !.rc = found.rc]
        ELSE Let([m1 EXCEPT !.at32x_info.chip = found.chip], LAMBDA m2 :
                ERR_CHECK(IF m2.at32x_info.spim_info.is_spim # 0 THEN at32x_init_spim(m2)
                          ELSE at32x_init_main_flash(m2),
                          LAMBDA m3 :
                            [m3 EXCEPT !.sub_bank =
                                SubBankLayout(m3.sub_bank, m3.bank.base,
                                              m3.at32x_info.sector_size)])))

at32_get_device_info(m) == ERR_CHECK(at32x_get_product_id(m), DeviceInfoOf)

\* alloc_block_array: num_blocks blocks of size bytes each, one after the
\* other from base_offset on, nothing known of any of them
alloc_block_array(base_offset, size, num_blocks) ==
    [g \in 0..(num_blocks - 1) |->
        [offset |-> base_offset + g * size, size |-> size, is_erased |-> -1]]

\* the protection blocks: alloc_block_array(0, 4096, num_prot_blocks), the
\* last of 32 blocks resized to (num_pages - 31 * 2) * secsz, an int
ProtBlocks(num_prot_blocks, num_pages, secsz) ==
    LET blocks == alloc_block_array(0, 4096, num_prot_blocks)
    IN  IF num_prot_blocks = 32
        THEN [blocks EXCEPT ![31].size = (num_pages - 62) * secsz]
        ELSE blocks

\* at32x_probe from the arrays on: m1 is the state after
\* at32_get_device_info returned ERROR_OK
ProbeArrays(m1) ==
    LET secsz == m1.at32x_info.sector_size
        num_pages == m1.at32x_info.flash_size \div secsz
        blocks == (m1.at32x_info.flash_size + 4095) \div 4096
        num_prot_blocks == IF blocks > 32 THEN 32 ELSE blocks
        m2 == [m1 EXCEPT !.sectors = <<>>,
                         !.bank.prot_blocks = <<>>,
                         !.bank.size = m1.at32x_info.flash_size,
                         !.num_sectors = num_pages]
        m3 == [m2 EXCEPT !.sectors = alloc_block_array(0, secsz, num_pages),
                         !.bank.num_prot_blocks = num_prot_blocks]
    IN  IF ~m1.env.sectorsOk THEN [m2 EXCEPT !.rc = ERROR_FAIL]
        ELSE IF ~m1.env.protOk THEN [m3 EXCEPT !.rc = ERROR_FAIL]
        ELSE [m3 EXCEPT !.bank.prot_blocks =
                            ProtBlocks(num_prot_blocks, num_pages, secsz),
                        !.at32x_info.probed = 1,
                        !.rc = ERROR_OK]

\* the probe without the early return of a probed bank
at32x_probe_NoProbedCheck(m) == ERR_CHECK(at32_get_device_info(m), ProbeArrays)

at32x_probe(m) ==
    IF m.at32x_info.probed # 0 THEN [m EXCEPT !.rc = ERROR_OK]
    ELSE ERR_CHECK(at32_get_device_info(m), ProbeArrays)

at32x_auto_probe(m) == at32x_probe(m)

\* get_at32fx_info drops what at32x_probe returns
get_at32fx_info(m) == [at32x_probe(m) EXCEPT !.rc = ERROR_OK]

\* FLASH_BANK_COMMAND_HANDLER: the driver's record of a bank configured at
\* base, with the three serial-memory arguments of the command line
at32x_flash_bank_command(base, io_mux, type, size) ==
    LET zero == [pid |-> 0, flash_size |-> 0, sector_size |-> 0, bank_addr |-> 0,
                 probed |-> 0, usd_addr |-> 0, chip |-> 0,
                 spim_info |-> [is_spim |-> 0, io_mux |-> 0, flash_type |-> 0,
                                flash_size |-> 0, sector_size |-> 0]]
        info == IF base = SPIM_BASE_ADDR
                THEN [zero EXCEPT !.spim_info.is_spim = 1,
                                  !.spim_info.io_mux = io_mux,
                                  !.spim_info.flash_type = type,
                                  !.spim_info.flash_size = size]
                ELSE zero
    IN  [info EXCEPT !.bank_addr = base]

(* ------------------------------ the system ---------------------------- *)
VARIABLES
    halted,       \* target->state == TARGET_HALTED
    sub_bank,     \* at32x_info->sub_bank[2]
    num_sectors,  \* bank->num_sectors
    sectors,      \* bank->sectors[]
    usd_data,     \* at32x_info->usd_data
    wa,           \* working areas reserved in the target
    flash,        \* the main array, byte by byte from the bank base
    opt,          \* the 16 option bytes at usd_addr
    efc,          \* per sub-bank controller: unlocked, key state, ctrl, addr
    buffer,       \* the caller's buffer of the write call
    pc,           \* "idle" before the driver call, "done" after it, "again"
                  \* after the second call of SpecTwice
    call,         \* the call made and its arguments
    rc,           \* what it returned
    log,          \* its transport accesses
    pre,          \* flash, sectors, usd_data, buffer, opt as they were before it
    ers,          \* how often the controller erased each sector during it
    pieces,       \* the at32x_sub_bank_write calls made during it
    progs,        \* the main-array offsets programmed during it
    handed,       \* the buffer at32x_write handed to the write paths
    padded,       \* and the byte count that went with it
    fell,         \* whether the fallback path was entered
    at32x_info,   \* bank->driver_priv, but for sub_bank and usd_data
    bank,         \* bank->base, size, num_prot_blocks, prot_blocks
    product_id,   \* the word the device holds at AT32_PRODUCT_ID_ADDR
    probes        \* how many probe calls were made

vars == <<halted, sub_bank, num_sectors, sectors, usd_data, wa, flash, opt, efc,
          buffer, pc, call, rc, log, pre, ers, pieces, progs, handed, padded, fell,
          at32x_info, bank, product_id, probes>>

\* the plans of a call: which transport accesses fail ...
FaultSets ==
    {{}} \cup {{i} : i \in 1..MaxAcc}
         \cup {{i, i + g} : i \in 1..MaxAcc, g \in 1..FaultGap}

\* ... what the status register shows at which wait-busy ...
HwPlans ==
    {[hwAt |-> 0, hwKind |-> "ok"]}
        \cup [hwAt : 1..MaxWait, hwKind : {"stuck", "prgmerr", "epperr", "both"}]

\* ... whether the working areas can be reserved and how the accelerator run
\* ends ("none": operation failed with neither error bit) ...
AreaPlans ==
    {[algOk |-> FALSE, stageAvail |-> 0, runKind |-> "ok"],
     [algOk |-> TRUE, stageAvail |-> 0, runKind |-> "ok"]}
        \cup [algOk : {TRUE}, stageAvail : {512, 16384},
              runKind : {"ok", "none", "prgmerr", "epperr", "both"}]

\* ... and the byte a read past the end of the buffer yields, and whether
\* malloc succeeds
Env(f, h, a, junk, mallocOk) ==
    [faults |-> f, hwAt |-> h.hwAt, hwKind |-> h.hwKind, algOk |-> a.algOk,
     stageAvail |-> a.stageAvail, runKind |-> a.runKind, junk |-> junk,
     mallocOk |-> mallocOk]

NoAreas == [algOk |-> FALSE, stageAvail |-> 0, runKind |-> "ok"]
NoError == [hwAt |-> 0, hwKind |-> "ok"]

\* the plan in which nothing fails and no working area is to be had
QuietPlan == Env({}, NoError, NoAreas, 0, TRUE)

\* the plans of an erase: transport failures and status reports
ErasePlans == {Env(f, h, NoAreas, 0, TRUE) : f \in FaultSets, h \in HwPlans}

\* the plans of an option-byte operation: the one wait-busy is that of the
\* option-byte erase
UsdPlans ==
    {Env(f, h, a, 0, TRUE) :
        f \in FaultSets, h \in {p \in HwPlans : p.hwAt <= 1}, a \in AreaPlans}

\* the plans of a write: the status register matters on the fallback path,
\* the accelerator on the bulk path; a read past the end of the buffer may
\* yield any byte; malloc of the padding buffer may fail
WritePlans ==
    {Env(f, h, a, 0, TRUE) :
        f \in FaultSets, h \in HwPlans, a \in {p \in AreaPlans : p.stageAvail = 0}}
    \cup {Env(f, NoError, a, 0, TRUE) :
            f \in FaultSets, a \in {p \in AreaPlans : p.stageAvail > 0}}
    \cup {Env({}, NoError, a, 255, TRUE) : a \in AreaPlans}
    \cup {Env({}, NoError, NoAreas, 0, FALSE)}

\* the buffers a caller hands to write: count bytes, none of them 0xFF
Buffers(count) == {[k \in 1..count |-> k], [k \in 1..count |-> 16 * k]}

Machine(env, buf) ==
    [rc |-> ERROR_OK, log |-> <<>>, waits |-> 0, val |-> 0, word |-> <<0, 0, 0, 0>>,
     env |-> env, halted |-> halted, sub_bank |-> sub_bank,
     num_sectors |-> num_sectors, sectors |-> sectors, usd_data |-> usd_data,
     wa |-> wa, flash |-> flash, opt |-> opt, efc |-> efc,
     ers |-> [g \in DOMAIN sectors |-> 0], pieces |-> <<>>, progs |-> <<>>,
     handed |-> <<>>, padded |-> 0, fell |-> FALSE, caller |-> buf,
     at32x_info |-> at32x_info, bank |-> bank, product_id |-> product_id]

Call(op, first, last, offset, count, set) ==
    [op |-> op, first |-> first, last |-> last, offset |-> offset,
     count |-> count, set |-> set]

\* the driver's and the device's state as a call finds it
Snapshot(buf) ==
    [flash |-> flash, sectors |-> sectors, usd_data |-> usd_data, buffer |-> buf,
     opt |-> opt, at32x_info |-> at32x_info, bank |-> bank, sub_bank |-> sub_bank,
     num_sectors |-> num_sectors]

\* the state after a call that ended as m, with pc at to
CommitAs(m, c, buf, to) ==
    /\ pc' = to
    /\ call' = c
    /\ buffer' = m.caller
    /\ rc' = m.rc
    /\ log' = m.log
    /\ pre' = Snapshot(buf)
    /\ sectors' = m.sectors
    /\ usd_data' = m.usd_data
    /\ wa' = m.wa
    /\ flash' = m.flash
    /\ opt' = m.opt
    /\ efc' = m.efc
    /\ ers' = m.ers
    /\ pieces' = m.pieces
    /\ progs' = m.progs
    /\ handed' = m.handed
    /\ padded' = m.padded
    /\ fell' = m.fell
    /\ UNCHANGED <<halted, sub_bank, num_sectors, at32x_info, bank, product_id, probes>>

\* the state after the call of a behaviour that makes one call
Commit(m, c, buf) == CommitAs(m, c, buf, "done")

\* the option bytes of a device with access protection off, nothing protected
OptInit ==
    [b \in 0..15 |->
        CASE b = 0 -> ACCESS_PROTECTION_DISABLED
          [] b = 1 -> 255 - ACCESS_PROTECTION_DISABLED
          [] b % 2 = 0 -> 255
          [] OTHER -> 0]

\* the state after probe of a device whose flash size is one of sizes and
\* whose option bytes hold one of opts
InitOf(sizes, opts) ==
    /\ halted \in BOOLEAN
    /\ \E fs \in sizes :
          /\ sub_bank = ScaledDeviceInfo(fs)
          /\ num_sectors = BankNumSectors(fs)
          /\ sectors = alloc_block_array(0, sector_size, BankNumSectors(fs))
          /\ \E fill \in {0, 255} : flash = [b \in 0..(fs - 1) |-> fill]
          /\ at32x_info = [at32x_flash_bank_command(BANK1_BASE_ADDR, 0, 0, 0)
                             EXCEPT !.flash_size = fs, !.sector_size = sector_size,
                                    !.usd_addr = USD_ADDR, !.probed = 1]
          /\ bank = [base |-> BANK1_BASE_ADDR, size |-> fs, num_prot_blocks |-> 1,
                     prot_blocks |-> ProtBlocks(1, BankNumSectors(fs), sector_size)]
    /\ product_id = 0
    /\ probes = 0
    /\ usd_data = [fap |-> 0, ssb |-> 0, data |-> 0, protection |-> <<0, 0, 0, 0>>]
    /\ wa = <<>>
    /\ opt \in opts
    /\ efc = [sb \in SubBankIds |->
                [unlocked |-> FALSE, keyst |-> 0, ctrl |-> EFCCTRL_OPLK, addr |-> 0]]
    /\ buffer = <<>>
    /\ pc = "idle"
    /\ call = Call("none", 0, 0, 0, 0, FALSE)
    /\ rc = ERROR_OK
    /\ log = <<>>
    /\ pre = Snapshot(<<>>)
    /\ ers = [g \in DOMAIN sectors |-> 0]
    /\ pieces = <<>>
    /\ progs = <<>>
    /\ handed = <<>>
    /\ padded = 0
    /\ fell = FALSE

Init == InitOf(FlashSizes, {OptInit})

\* A call that returns before its first transport access never reads its
\* plan: the quiet plan stands for all plans there.
Erase ==
    /\ pc = "idle"
    /\ \E first \in 0..(num_sectors - 1), last \in 0..(num_sectors - 1),
          env \in ErasePlans :
          /\ first <= last
          /\ ~halted => env = QuietPlan
          /\ Commit(at32x_erase(Machine(env, <<>>), first, last),
                    Call("erase", first, last, 0, 0, FALSE), <<>>)

MassErase ==
    /\ pc = "idle"
    /\ \E env \in ErasePlans :
          /\ ~halted => env = QuietPlan
          /\ Commit(at32x_mass_erase(Machine(env, <<>>)),
                    Call("mass_erase", 0, 0, 0, 0, FALSE), <<>>)

Write ==
    /\ pc = "idle"
    /\ \E offset \in 0..(BankSize(sub_bank) - 1), count \in 0..MaxCount,
          env \in WritePlans :
          /\ offset + count <= BankSize(sub_bank)
          /\ (~halted \/ offset % 2 = 1) => env = QuietPlan
          /\ \E buf \in Buffers(count) :
                Commit(at32x_write(Machine(env, buf), buf, offset, count),
                       Call("write", 0, 0, offset, count, FALSE), buf)

Protect ==
    /\ pc = "idle"
    /\ \E set \in BOOLEAN, first \in {0, 7, 31}, last \in {0, 8, 31},
          env \in UsdPlans :
          /\ first <= last
          /\ ~halted => env = QuietPlan
          /\ Commit(at32x_protect(Machine(env, <<>>), set, first, last),
                    Call("protect", first, last, 0, 0, set), <<>>)

DisableAccessProtection ==
    /\ pc = "idle"
    /\ \E env \in UsdPlans :
          /\ ~halted => env = QuietPlan
          /\ Commit(at32x_handle_disable_access_protection_command(Machine(env, <<>>)),
                    Call("disable_access_protection", 0, 0, 0, 0, FALSE), <<>>)

Next == Erase \/ MassErase \/ Write \/ Protect \/ DisableAccessProtection

Spec == Init /\ [][Next]_vars

\* A second erase of the range a first erase returned ERROR_OK for.
EraseAgain ==
    /\ pc = "done"
    /\ call.op = "erase"
    /\ halted
    /\ rc = ERROR_OK
    /\ \E env \in ErasePlans :
          CommitAs(at32x_erase(Machine(env, <<>>), call.first, call.last),
                   call, <<>>, "again")

NextTwice == Erase \/ EraseAgain

\* behaviours of an erase followed by the same erase
SpecTwice == Init /\ [][NextTwice]_vars

\* a two-sub-bank chip whose sub-bank 1 has one sector more, so that a range
\* of two sectors in it is not the whole sub-bank
WideFlashSize == BankThreshold + (NumSec1 + 1) * sector_size

InitWide == InitOf({WideFlashSize}, {OptInit})

NextErase == Erase

\* behaviours of one erase on the wider chip
SpecErase == InitWide /\ [][NextErase]_vars

\* option-byte records a device can hold: access protection, boot select,
\* user word, and the four bytes of the protection bitmap
UsdRecords ==
    [fap : {0, ACCESS_PROTECTION_DISABLED, 255},
     ssb : {0, 255},
     data : {0, 4660, 65535},
     protection : {<<0, 0, 0, 0>>, <<255, 255, 255, 255>>, <<1, 2, 4, 8>>,
                   <<129, 0, 129, 0>>, <<0, 129, 0, 129>>, <<254, 127, 239, 85>>}]

\* the option-byte page that holds record u: each half-word has the data
\* byte in its low byte and the complement in its high byte
OptHolding(u) ==
    [b \in 0..15 |-> IF b % 2 = 0 THEN UsdBuffer(u)[b + 1]
                                 ELSE 255 - UsdBuffer(u)[b]]

InitUsd == InitOf({BankThreshold}, {OptHolding(u) : u \in UsdRecords})

\* the plans of these calls: the working areas are to be had and the loader
\* runs; reads of the option words in faults fail
RecordPlan(faults) ==
    Env(faults, NoError, [algOk |-> TRUE, stageAvail |-> 512, runKind |-> "ok"], 0, TRUE)

\* at most one of the four reads fails
RecordPlans == {RecordPlan(f) : f \in {{}} \cup {{i} : i \in 1..4}}

ProtectRecord ==
    /\ pc = "idle"
    /\ \E set \in BOOLEAN, first \in {0, 7, 31}, last \in {0, 8, 31},
          env \in RecordPlans :
          /\ first <= last
          /\ ~halted => env = RecordPlan({})
          /\ Commit(at32x_protect(Machine(env, <<>>), set, first, last),
                    Call("protect", first, last, 0, 0, set), <<>>)

DisableRecord ==
    /\ pc = "idle"
    /\ \E env \in RecordPlans :
          /\ ~halted => env = RecordPlan({})
          /\ Commit(at32x_handle_disable_access_protection_command(Machine(env, <<>>)),
                    Call("disable_access_protection", 0, 0, 0, 0, FALSE), <<>>)

\* at32x_read_usd_data as the next option-byte operation starts with it
ReadRecord ==
    /\ pc = "done"
    /\ halted
    /\ \E env \in RecordPlans :
          CommitAs(at32x_read_usd_data(Machine(env, <<>>)),
                   Call("read_usd_data", 0, 0, 0, 0, FALSE), <<>>, "again")

NextUsd == ProtectRecord \/ DisableRecord \/ ReadRecord

\* behaviours of an option-byte operation followed by a read of the record
SpecUsd == InitUsd /\ [][NextUsd]_vars

\* the longest sequence of probe calls
MaxProbes == 3

\* the bases a bank is configured at: the main array, the serial-memory
\* window, and 0x08100000
ProbeBases == {BANK1_BASE_ADDR, SPIM_BASE_ADDR, 135266304}

\* the product ids of the catalog, and two ids that are not in it
CatalogIds ==
    LET table == known_artery_chips
    IN  {table[k].pid : k \in 1..(Len(table) - 1)}
DeviceIds == CatalogIds \cup {0, 305419896}

\* the devices behind a bank that is not at the main-array base: an
\* at32f403a of 1024 KiB, an at32f403 of 128 KiB, and one that is not in
\* the catalog
SerialIds == {known_artery_chips[5].pid, known_artery_chips[14].pid, 305419896}

\* the serial-memory arguments of the bank command: io_mux, type, size
SerialArgs == [io_mux : {0, 1}, type : {2}, size : {12288, 262144}]

\* the plans of a probe: one transport access fails, or one of the two
\* alloc_block_array calls does
ProbePlans ==
    {[faults |-> f, sectorsOk |-> TRUE, protOk |-> TRUE] :
        f \in {{}} \cup {{i} : i \in 1..MaxAcc}}
    \cup {[faults |-> {}, sectorsOk |-> FALSE, protOk |-> TRUE],
          [faults |-> {}, sectorsOk |-> TRUE, protOk |-> FALSE]}

\* the bank after the flash bank command: nothing probed yet, the arrays
\* null; the main array and the option bytes play no part in a probe
InitProbe ==
    /\ halted = TRUE
    /\ \E base \in ProbeBases :
          /\ bank = [base |-> base, size |-> 0, num_prot_blocks |-> 0,
                     prot_blocks |-> <<>>]
          /\ product_id \in (IF base = BANK1_BASE_ADDR THEN DeviceIds ELSE SerialIds)
          /\ \E a \in SerialArgs :
                /\ base # SPIM_BASE_ADDR =>
                      a = [io_mux |-> 0, type |-> 2, size |-> 12288]
                /\ at32x_info = at32x_flash_bank_command(base, a.io_mux, a.type, a.size)
    /\ sub_bank = [i \in SubBankIds |->
                     [reg_base |-> 0, size |-> 0, num_sectors |-> 0, base |-> 0]]
    /\ num_sectors = 0
    /\ sectors = <<>>
    /\ flash = <<>>
    /\ usd_data = [fap |-> 0, ssb |-> 0, data |-> 0, protection |-> <<0, 0, 0, 0>>]
    /\ wa = <<>>
    /\ opt = OptInit
    /\ efc = [sb \in SubBankIds |->
                [unlocked |-> FALSE, keyst |-> 0, ctrl |-> EFCCTRL_OPLK, addr |-> 0]]
    /\ buffer = <<>>
    /\ pc = "idle"
    /\ call = Call("none", 0, 0, 0, 0, FALSE)
    /\ rc = ERROR_OK
    /\ log = <<>>
    /\ pre = Snapshot(<<>>)
    /\ ers = <<>>
    /\ pieces = <<>>
    /\ progs = <<>>
    /\ handed = <<>>
    /\ padded = 0
    /\ fell = FALSE
    /\ probes = 0

\* the state after a probe call that ended as m
CommitProbe(m, op) ==
    /\ probes' = probes + 1
    /\ pc' = "done"
    /\ call' = Call(op, 0, 0, 0, 0, FALSE)
    /\ rc' = m.rc
    /\ log' = m.log
    /\ pre' = Snapshot(<<>>)
    /\ at32x_info' = m.at32x_info
    /\ bank' = m.bank
    /\ sub_bank' = m.sub_bank
    /\ sectors' = m.sectors
    /\ num_sectors' = m.num_sectors
    /\ UNCHANGED <<halted, usd_data, wa, flash, opt, efc, buffer, ers, pieces, progs,
                   handed, padded, fell, product_id>>

\* the plan in which nothing fails
QuietProbe == [faults |-> {}, sectorsOk |-> TRUE, protOk |-> TRUE]

\* A call that finds the bank probed makes no access and no allocation, and
\* the probe of a main-array bank makes one access: the plans that differ
\* only in what such a call never reads are left out.
PlanRead(env) ==
    /\ at32x_info.probed # 0 => env = QuietProbe
    /\ at32x_info.spim_info.is_spim = 0 => env.faults \subseteq {1}

Probe ==
    /\ probes < MaxProbes
    /\ \E env \in ProbePlans :
          /\ PlanRead(env)
          /\ \E m \in {at32x_probe(Machine(env, <<>>))} : CommitProbe(m, "probe")

AutoProbe ==
    /\ probes < MaxProbes
    /\ \E env \in ProbePlans :
          /\ PlanRead(env)
          /\ \E m \in {at32x_auto_probe(Machine(env, <<>>))} : CommitProbe(m, "auto_probe")

GetInfo ==
    /\ probes < MaxProbes
    /\ \E env \in ProbePlans :
          /\ PlanRead(env)
          /\ \E m \in {get_at32fx_info(Machine(env, <<>>))} : CommitProbe(m, "info")

NextProbe == Probe \/ AutoProbe \/ GetInfo

\* behaviours of a freshly configured bank that is probed
SpecProbe == InitProbe /\ [][NextProbe]_vars

\* the longest timeout handed to a wait-busy that is followed poll by poll
MaxTimeout == 3

\* the plans of such a wait-busy: for how many polls the controller is busy,
\* what the status shows then, and which access fails
WaitPlans ==
    [faults : {{}} \cup {{i} : i \in 1..(2 * MaxTimeout + 2)},
     hwKind : {"ok", "prgmerr", "epperr", "both"},
     busy : 0..(MaxTimeout + 2)]

\* one call of at32x_wait_status_busy on a sub-bank of the device
WaitBusy ==
    /\ pc = "idle"
    /\ \E sb \in SubBankIds, timeout \in 0..MaxTimeout, env \in WaitPlans :
          /\ sub_bank[sb].size > 0
          /\ \E m \in {WaitStatusBusyPolled(Machine(env, <<>>), sb, timeout)} :
                Commit(m, Call("wait", sb, timeout, env.busy, 0, FALSE), <<>>)

NextWait == WaitBusy

\* behaviours of one wait-busy
SpecWait == Init /\ [][NextWait]_vars

\* the working-area outcomes of a call in a sequence of calls: no region to
\* be had, no staging region, a run that ends well, a run that fails
ScratchAreas ==
    {NoAreas,
     [algOk |-> TRUE, stageAvail |-> 0, runKind |-> "ok"],
     [algOk |-> TRUE, stageAvail |-> 16384, runKind |-> "ok"],
     [algOk |-> TRUE, stageAvail |-> 16384, runKind |-> "both"]}

\* the plans of such a call: at most one transport access fails and the
\* controller reports no error
ScratchPlans ==
    {Env(f, NoError, a, 0, TRUE) :
        f \in {{}} \cup {{i} : i \in 1..(MaxAcc + FaultGap)}, a \in ScratchAreas}

\* the first call of a behaviour ends at "done", the second at "again"
AfterCall == IF pc = "idle" THEN "done" ELSE "again"

\* a write as the first or the second call
WriteNext ==
    /\ pc \in {"idle", "done"}
    /\ \E offset \in {0, sector_size}, count \in {sector_size, sector_size + 1},
          env \in ScratchPlans :
          /\ ~halted => env = QuietPlan
          /\ \E buf \in {[k \in 1..count |-> k]} :
                CommitAs(at32x_write(Machine(env, buf), buf, offset, count),
                         Call("write", 0, 0, offset, count, FALSE), buf, AfterCall)

\* a protect as the first or the second call
ProtectNext ==
    /\ pc \in {"idle", "done"}
    /\ \E set \in BOOLEAN, env \in ScratchPlans :
          /\ ~halted => env = QuietPlan
          /\ CommitAs(at32x_protect(Machine(env, <<>>), set, 0, 0),
                      Call("protect", 0, 0, 0, 0, set), <<>>, AfterCall)

NextScratch == WriteNext \/ ProtectNext

\* behaviours of two calls, each a write or a protect
SpecScratch == Init /\ [][NextScratch]_vars

(* ------------------------- reading the transport log ------------------ *)
\* entry e is a 32-bit write to register off of sub-bank sb
IsRegWrite(e, sb, off) == e.op = "w32" /\ e.a = sub_bank[sb].reg_base + off

\* entry e is the lock write of sub-bank sb
IsLock(e, sb) == IsRegWrite(e, sb, EFC_CTRL) /\ e.v = EFCCTRL_OPLK

\* entry e completed the unlock key sequence of sub-bank sb
IsUnlocked(e, sb) ==
    IsRegWrite(e, sb, EFC_UNLOCK) /\ e.v = KEY2 /\ e.rc = ERROR_OK

\* entry e is an access to a register of sub-bank sb
InAperture(e, sb) ==
    /\ e.op \in {"w32", "r32"}
    /\ e.a >= sub_bank[sb].reg_base
    /\ e.a < sub_bank[sb].reg_base + 64

\* entry e shows a failure: the access failed, or the status register read
\* busy until the timeout or an error flag
ShowsFailure(e) == e.rc # ERROR_OK \/ (e.op = "r32" /\ e.v # 0)

Done(op) == pc = "done" /\ call.op = op

WholeBank == call.first = 0 /\ call.last = num_sectors - 1

(* --------------------------------- claims ----------------------------- *)

\* C1: an erase or mass erase that completed the unlock key sequence of a
\* sub-bank writes the lock bit of that sub-bank afterwards, before it
\* returns, on every exit path; no sub-bank is left unlocked.
C1_EraseAlwaysLocks ==
    (Done("erase") \/ Done("mass_erase")) =>
        \A sb \in SubBankIds :
            /\ \A i \in DOMAIN log :
                  IsUnlocked(log[i], sb) =>
                      \E j \in DOMAIN log : j > i /\ IsLock(log[j], sb)
            /\ ~efc[sb].unlocked

\* C2: every at32x_sub_bank_write call ends with the lock write of its
\* sub-bank as its last register access, whatever happened before it.
C2_WriteEndsWithLock ==
    Done("write") =>
        \A k \in DOMAIN pieces :
            /\ pieces[k].to > pieces[k].from
            /\ IsLock(log[pieces[k].to], pieces[k].sb)

\* C2 witness: the unlock itself failed and the lock write was still made.
C2_Witness ==
    /\ Done("write")
    /\ Len(pieces) = 1
    /\ log[1].rc # ERROR_OK
    /\ Len(log) = 2
    /\ IsLock(log[2], pieces[1].sb)

\* the entries of a sub-bank write, the lock write excluded, whose failure
\* decides its result: every access but the working-area calls and the
\* writes that clear the status register
Bears(p, i) ==
    /\ i > p.from /\ i < p.to
    /\ log[i].op \in {"w32", "w16", "wbuf", "run", "r32"}
    /\ ~IsRegWrite(log[i], p.sb, EFC_STS)
    /\ ShowsFailure(log[i])

\* the result of the steps of sub-bank write p that precede the lock write:
\* the first failure; the resource error when no working area was to be had
\* and there was no half-word to write; OK otherwise
BodyResult(p) ==
    LET F == {i \in DOMAIN log : Bears(p, i)}
        seg == {i \in DOMAIN log : i > p.from /\ i < p.to}
        first == CHOOSE i \in F : \A j \in F : i <= j
    IN  IF F # {}
        THEN (IF log[first].rc # ERROR_OK THEN log[first].rc ELSE ERROR_FAIL)
        ELSE IF /\ \E i \in seg : log[i].op = "alloc" /\ log[i].rc # ERROR_OK
                /\ \A i \in seg : log[i].op \notin {"run", "w16"}
        THEN ERROR_TARGET_RESOURCE_NOT_AVAILABLE
        ELSE ERROR_OK

\* C3: a sub-bank write returns the first failure of its steps; the result
\* of the lock write is returned only when every earlier step returned OK.
C3_FirstFailureWins ==
    Done("write") =>
        \A k \in DOMAIN pieces :
            pieces[k].rc = IF BodyResult(pieces[k]) # ERROR_OK
                           THEN BodyResult(pieces[k])
                           ELSE log[pieces[k].to].rc

\* C3 witness: a step failed, the lock write failed too, and the result is
\* that of the step.
C3_Witness ==
    /\ Done("write")
    /\ \E k \in DOMAIN pieces :
          /\ BodyResult(pieces[k]) # ERROR_OK
          /\ log[pieces[k].to].rc # ERROR_OK
          /\ log[pieces[k].to].rc # BodyResult(pieces[k])
          /\ rc = BodyResult(pieces[k])

\* C4: on a target that is not halted every operation returns the
\* not-halted error, makes no transport access, reserves no working area
\* and leaves the sector flags and the option-byte record as they were.
C4_NotHaltedNoEffect ==
    (pc = "done" /\ ~halted) =>
        /\ rc = ERROR_TARGET_NOT_HALTED
        /\ log = <<>>
        /\ wa = <<>>
        /\ sectors = pre.sectors
        /\ usd_data = pre.usd_data
        /\ flash = pre.flash

\* C4 witness: protect was called on a running target.
C4_Witness == Done("protect") /\ ~halted /\ rc = ERROR_TARGET_NOT_HALTED

\* C5: on a halted target a whole-bank mass erase (mass_erase, or erase of
\* sectors 0 .. num_sectors-1) in which an access failed, the busy flag
\* stayed set or an error flag was reported returns a failure.
C5_MassEraseFailureReported ==
    (/\ Done("mass_erase") \/ (Done("erase") /\ WholeBank)
     /\ halted
     /\ \E i \in DOMAIN log : ShowsFailure(log[i]))
        => rc # ERROR_OK

\* C6: on a two-sub-bank device a successful erase(first, last) has the
\* controller erase every sector first..last exactly once and no other.
C6_EraseExactRange ==
    (Done("erase") /\ halted /\ sub_bank[1].size > 0 /\ rc = ERROR_OK) =>
        \A g \in DOMAIN ers :
            ers[g] = IF call.first <= g /\ g <= call.last THEN 1 ELSE 0

\* C7: when the range of an erase covers sectors of both sub-banks and the
\* sub-bank 0 part fails, erase returns a failure and no register of
\* sub-bank 1 is accessed afterwards.
C7_EraseAbortsOnSubBank0Failure ==
    (/\ Done("erase") /\ halted
     /\ call.first < sub_bank[0].num_sectors
     /\ call.last >= sub_bank[0].num_sectors) =>
        \A i \in DOMAIN log :
            (InAperture(log[i], 0) /\ ShowsFailure(log[i])) =>
                /\ rc # ERROR_OK
                /\ \A j \in DOMAIN log : j > i => ~InAperture(log[j], 1)

\* the byte count of the write call after the padding
PaddedCount == call.count + (call.count % 2)

\* C8: a successful write that starts in sub-bank 0 and ends in sub-bank 1
\* hands sub-bank 0 the first size0 - offset bytes of the buffer at offset,
\* and sub-bank 1 the remaining bytes, taken from the buffer position that
\* follows, at its start.
C8_WriteSplitAtBoundary ==
    (/\ Done("write") /\ halted /\ rc = ERROR_OK
     /\ call.offset % 2 = 0
     /\ call.offset < sub_bank[0].size
     /\ call.offset + call.count > sub_bank[0].size) =>
        /\ Len(pieces) = 2
        /\ pieces[1].sb = 0 /\ pieces[1].pos = 0
        /\ pieces[1].offset = call.offset
        /\ pieces[1].count = sub_bank[0].size - call.offset
        /\ pieces[2].sb = 1 /\ pieces[2].pos = sub_bank[0].size - call.offset
        /\ pieces[2].offset = 0
        /\ pieces[2].count = PaddedCount - (sub_bank[0].size - call.offset)

\* C9: after a successful write of buffer B at an even offset to erased
\* flash, the range reads back B, the padding byte of an odd length reads
\* 0xFF, and no other location has changed.
C9_WriteReadBack ==
    (/\ Done("write") /\ halted /\ rc = ERROR_OK
     /\ call.offset % 2 = 0
     /\ \A b \in call.offset..(call.offset + PaddedCount - 1) : pre.flash[b] = 255) =>
        \A b \in DOMAIN flash :
            flash[b] = IF b >= call.offset /\ b < call.offset + call.count
                       THEN buffer[b - call.offset + 1]
                       ELSE pre.flash[b]

\* C10: a write leaves the caller's buffer as it was; what it hands to the
\* write paths is, for an odd count n, the caller's n bytes followed by one
\* 0xFF byte with count n + 1, and for an even count the caller's bytes
\* with the count unchanged.
C10_OddCountPadding ==
    Done("write") =>
        /\ buffer = pre.buffer
        /\ pieces # <<>> =>
              /\ handed = IF call.count % 2 = 1 THEN pre.buffer \o <<255>>
                          ELSE pre.buffer
              /\ padded = PaddedCount
              /\ pieces[1].pos = 0

\* C10 witness: an odd count was padded and the write failed.
C10_Witness ==
    /\ Done("write")
    /\ call.count = 3
    /\ pieces # <<>>
    /\ rc # ERROR_OK
    /\ handed = buffer \o <<255>>

\* C11: a write at an odd offset on a halted target returns the alignment
\* error and does nothing else: no transport access, no working area, no
\* change of the array or of the controllers.
C11_OddOffsetRefused ==
    (Done("write") /\ halted /\ call.offset % 2 = 1) =>
        /\ rc = ERROR_FLASH_DST_BREAKS_ALIGNMENT
        /\ log = <<>>
        /\ pieces = <<>>
        /\ wa = <<>>
        /\ flash = pre.flash
        /\ \A sb \in SubBankIds : ~efc[sb].unlocked /\ efc[sb].keyst = 0

\* C11 witness: a write of some bytes at an odd offset was refused.
C11_Witness ==
    /\ Done("write") /\ halted
    /\ call.offset % 2 = 1 /\ call.count > 0
    /\ rc = ERROR_FLASH_DST_BREAKS_ALIGNMENT

\* C12: when a working area cannot be reserved (an allocation failed and the
\* accelerator was never run) the write goes through the half-word
\* fallback, and it does not return the resource error when every
\* transport access succeeds and the status register shows no failure,
\* whatever the count, zero included.
C12_ResourceErrorRecovered ==
    (/\ Done("write") /\ halted /\ call.offset % 2 = 0
     /\ \E i \in DOMAIN log : log[i].op = "alloc" /\ log[i].rc # ERROR_OK
     /\ \A i \in DOMAIN log : log[i].op # "run"
     /\ \A i \in DOMAIN log : log[i].op # "alloc" => ~ShowsFailure(log[i])) =>
        /\ fell
        /\ rc # ERROR_TARGET_RESOURCE_NOT_AVAILABLE

\* C15: an option-byte operation that completed the unlock key sequence of
\* sub-bank 0 writes the lock bit afterwards, before it returns, on every
\* exit path; the controller is not left unlocked.
C15_UsdAlwaysLocks ==
    (Done("protect") \/ Done("disable_access_protection")) =>
        /\ \A i \in DOMAIN log :
              IsUnlocked(log[i], 0) =>
                  \E j \in DOMAIN log : j > i /\ IsLock(log[j], 0)
        /\ ~efc[0].unlocked

\* entry e is the read of EFC_STS of sub-bank 0.  An option-byte operation
\* reads it in one place only, the wait-busy of the option-byte erase
IsUsdWait(e) == e.op = "r32" /\ e.a = sub_bank[0].reg_base + EFC_STS

\* at32x_erase_usd_data returned ERROR_OK: its wait-busy, the last of its
\* steps, was reached and saw neither a failure nor an error flag
UsdEraseOk == \E i \in DOMAIN log : IsUsdWait(log[i]) /\ ~ShowsFailure(log[i])

\* entry e belongs to at32x_write_usd_data: the program-mode write, or a
\* step of the block write
IsUsdWriteStep(e) ==
    \/ IsRegWrite(e, 0, EFC_CTRL) /\ HasBit(e.v, EFCCTRL_USDPRGM)
    \/ e.op \in {"alloc", "wbuf", "run", "w16"}

\* usd_data.fap as at32x_read_usd_data leaves it: the low byte of the first
\* option word when that read succeeded, the old value otherwise
FapAsRead ==
    IF log # <<>> /\ log[1].rc = ERROR_OK THEN pre.opt[0] ELSE pre.usd_data.fap

\* C13: disable_access_protection on a halted target returns OK in every
\* case.  When the option-byte erase succeeded the record's fap is 0xA5 and
\* the write of the option bytes follows the erase; when it failed, fap is
\* what the read left and no step of the write is made.
C13_DisableAccessProtection ==
    (Done("disable_access_protection") /\ halted) =>
        /\ rc = ERROR_OK
        /\ UsdEraseOk =>
              /\ usd_data.fap = ACCESS_PROTECTION_DISABLED
              /\ \E i \in DOMAIN log :
                    /\ IsUsdWait(log[i])
                    /\ i < Len(log)
                    /\ \A j \in DOMAIN log : IsUsdWriteStep(log[j]) => j > i
        /\ ~UsdEraseOk =>
              /\ usd_data.fap = FapAsRead
              /\ \A j \in DOMAIN log : ~IsUsdWriteStep(log[j])

\* C13 witness: the read of the first option word and the erase both failed,
\* and the record's fap is not 0xA5 when the command returns OK.
C13_Witness ==
    /\ Done("disable_access_protection") /\ halted
    /\ Len(log) > 1
    /\ log[1].rc # ERROR_OK
    /\ ~UsdEraseOk
    /\ usd_data.fap # ACCESS_PROTECTION_DISABLED
    /\ rc = ERROR_OK

\* a register access of the option-byte cycle, as the log shows it
Acc(op, a, v) == [op |-> op, a |-> a, v |-> v]

\* the steps of the cycle that follow the read of the option words, in the
\* order the claim gives, all on the registers of sub-bank 0
UsdCycleSteps ==
    LET reg == sub_bank[0].reg_base
    IN  << Acc("w32", reg + EFC_UNLOCK, KEY1), Acc("w32", reg + EFC_UNLOCK, KEY2),
           Acc("w32", reg + EFC_USD_UNLOCK, KEY1),
           Acc("w32", reg + EFC_USD_UNLOCK, KEY2),
           Acc("w32", reg + EFC_CTRL, EFCCTRL_USDERS + EFCCTRL_USDULKS),
           Acc("w32", reg + EFC_CTRL,
               EFCCTRL_USDERS + EFCCTRL_USDULKS + EFCCTRL_ERSTR),
           Acc("r32", reg + EFC_STS, 0),
           Acc("w32", reg + EFC_UNLOCK, KEY1), Acc("w32", reg + EFC_UNLOCK, KEY2),
           Acc("w32", reg + EFC_USD_UNLOCK, KEY1),
           Acc("w32", reg + EFC_USD_UNLOCK, KEY2),
           Acc("w32", reg + EFC_CTRL, EFCCTRL_USDPRGM + EFCCTRL_USDULKS),
           Acc("run", USD_ADDR, 8),
           Acc("w32", reg + EFC_CTRL, EFCCTRL_OPLK) >>

\* the reads of the four option words
UsdCycleReads ==
    << Acc("r32", USD_ADDR, 0), Acc("r32", USD_ADDR + 4, 0),
       Acc("r32", USD_ADDR + 8, 0), Acc("r32", USD_ADDR + 12, 0) >>

\* entry e is a read of an option word
IsUsdRead(e) == e.op = "r32" /\ e.a >= USD_ADDR /\ e.a < USD_ADDR + 16

\* the accesses of the log as Acc records: all of them but the working-area
\* calls, the copy of the loader code and the writes that clear EFC_STS; a
\* status read that did not end well counts as the step it was
UsdTraceOf(keep(_)) ==
    LET F == SelectSeq(log, LAMBDA e :
                /\ e.op \in {"r32", "w32", "run", "w16"}
                /\ ~IsRegWrite(e, 0, EFC_STS)
                /\ keep(e))
    IN  [i \in 1..Len(F) |->
            Acc(F[i].op, F[i].a, IF IsUsdWait(F[i]) THEN 0 ELSE F[i].v)]

UsdTrace == UsdTraceOf(LAMBDA e : TRUE)
UsdTraceReads == UsdTraceOf(LAMBDA e : IsUsdRead(e))
UsdTraceSteps == UsdTraceOf(LAMBDA e : ~IsUsdRead(e))

IsPrefix(s, t) == Len(s) <= Len(t) /\ \A i \in 1..Len(s) : s[i] = t[i]

\* the failures that end an option-byte cycle: every failure the log shows
\* but those of the option-word reads, of the writes that clear EFC_STS and
\* of the working-area calls
UsdFailures ==
    {i \in DOMAIN log :
        /\ ShowsFailure(log[i])
        /\ log[i].op \in {"r32", "w32", "run", "wbuf", "w16"}
        /\ ~IsUsdRead(log[i])
        /\ ~IsRegWrite(log[i], 0, EFC_STS)}

\* what the cycle returns: its first failure; the resource error when a
\* working area was not to be had; OK otherwise
UsdResult ==
    LET first == CHOOSE i \in UsdFailures : \A j \in UsdFailures : i <= j
    IN  IF UsdFailures # {}
        THEN (IF log[first].rc # ERROR_OK THEN log[first].rc ELSE ERROR_FAIL)
        ELSE IF /\ \E i \in DOMAIN log : log[i].op = "alloc" /\ log[i].rc # ERROR_OK
                /\ \A i \in DOMAIN log : log[i].op # "run"
        THEN ERROR_TARGET_RESOURCE_NOT_AVAILABLE
        ELSE ERROR_OK

\* usd_data.protection as read from the option bytes before the call
ProtectionAsRead == <<pre.opt[8], pre.opt[10], pre.opt[12], pre.opt[14]>>

\* no read of an option word failed
UsdAllRead == \A i \in DOMAIN log : IsUsdRead(log[i]) => log[i].rc = ERROR_OK

\* C14: protect on a halted target goes through the option-byte cycle in
\* order, on the registers of sub-bank 0 only: the option words are read
\* first (all four unless a read fails), and the steps made after them are
\* an initial part of the cycle; a protect that returns OK made the whole
\* cycle, with the record as read changed between erase and write; a
\* failed erase is returned before any step of the write; every failure of
\* erase and write is returned.
C14_ProtectCycle ==
    (Done("protect") /\ halted) =>
        /\ \A i \in DOMAIN log : ~InAperture(log[i], 1)
        /\ IsPrefix(UsdTraceReads, UsdCycleReads)
        /\ UsdTrace = UsdTraceReads \o UsdTraceSteps
        /\ UsdAllRead => UsdTraceReads = UsdCycleReads
        /\ IsPrefix(UsdTraceSteps, UsdCycleSteps)
        /\ rc = UsdResult
        /\ ~UsdEraseOk => rc # ERROR_OK /\ \A j \in DOMAIN log : ~IsUsdWriteStep(log[j])
        /\ rc = ERROR_OK => UsdTraceSteps = UsdCycleSteps
        /\ (rc = ERROR_OK /\ UsdAllRead) =>
              /\ usd_data.protection =
                    ProtectLoop(ProtectionAsRead, call.set, call.first, call.last)
              /\ \A k \in 1..4 : opt[6 + 2 * k] = usd_data.protection[k]

\* C14 witness: a whole cycle on a two-sub-bank device that changed the
\* protection bytes.
C14_Witness ==
    /\ Done("protect") /\ halted /\ rc = ERROR_OK
    /\ sub_bank[1].size > 0
    /\ Len(UsdTrace) = 18
    /\ UsdAllRead
    /\ usd_data.protection # ProtectionAsRead

\* an erase call has returned: the first, or the repeated one
ErasedOnce == pc = "done" /\ call.op = "erase"
ErasedTwice == pc = "again" /\ call.op = "erase"

\* C20: a successful erase(first, last) leaves every sector first..last
\* marked erased, and the same erase made again succeeds, when nothing
\* fails during it, and leaves them marked erased.
C20_EraseIdempotent ==
    /\ ((ErasedOnce \/ ErasedTwice) /\ halted /\ rc = ERROR_OK) =>
          \A g \in call.first..call.last : sectors[g].is_erased = 1
    /\ (ErasedTwice /\ \A i \in DOMAIN log : ~ShowsFailure(log[i])) =>
          rc = ERROR_OK

(* ------------------------------ the probe ----------------------------- *)
\* the call before this state was a probe call
Probed(ops) == probes > 0 /\ call.op \in ops

\* at32x_init_main_flash has set the sizes of a main-array bank
MainResolved == at32x_info.spim_info.is_spim = 0 /\ at32x_info.flash_size # 0

\* C17: main-array geometry.  With total = flash_size_kb * 1024 and
\* threshold = 2 MiB when flash_size_kb > 1024, else 512 KiB: total <=
\* threshold gives one sub-bank of size total and a sub-bank 1 of size 0;
\* total > threshold gives sub-bank 0 of size threshold and sub-bank 1 of
\* size total - threshold, the sizes adding up to total, and the register
\* base of sub-bank 1 is that of sub-bank 0 plus 0x40.
C17_MainArrayGeometry ==
    MainResolved =>
        LET kb == known_artery_chips[at32x_info.chip].flash_size_kb
            total == kb * 1024
            threshold == IF kb > 1024 THEN 2 * 1024 * 1024 ELSE 512 * 1024
        IN  /\ total <= threshold =>
                  sub_bank[0].size = total /\ sub_bank[1].size = 0
            /\ total > threshold =>
                  /\ sub_bank[0].size = threshold
                  /\ sub_bank[1].size = total - threshold
                  /\ sub_bank[0].size + sub_bank[1].size = total
                  /\ sub_bank[1].reg_base = sub_bank[0].reg_base + 64

\* a 1024 KiB chip probed: two sub-banks of 512 KiB
C17_Witness ==
    /\ MainResolved
    /\ at32x_info.probed = 1
    /\ known_artery_chips[at32x_info.chip].flash_size_kb = 1024
    /\ sub_bank[1].size = 512 * 1024

\* C18: a bank whose base is neither the main-array base nor the
\* serial-memory window fails probe with an error, no sub-bank size or
\* register base is set, no sector or protection-block array is built and
\* the bank stays unprobed; serial-memory mode is entered only for a bank at
\* the serial-memory window.
C18_BadBaseFailsProbe ==
    /\ (bank.base \notin {BANK1_BASE_ADDR, SPIM_BASE_ADDR}) =>
          /\ Probed({"probe", "auto_probe"}) => rc # ERROR_OK
          /\ \A i \in SubBankIds : sub_bank[i].size = 0 /\ sub_bank[i].reg_base = 0
          /\ at32x_info.flash_size = 0
          /\ sectors = <<>>
          /\ bank.prot_blocks = <<>>
          /\ at32x_info.probed = 0
    /\ (at32x_info.spim_info.is_spim # 0 \/ \E i \in DOMAIN log : log[i].op = "w32") =>
          bank.base = SPIM_BASE_ADDR

\* a bank at 0x08100000 whose device is in the catalog: the id was read,
\* the chip found, and the probe failed
C18_Witness ==
    /\ bank.base \notin {BANK1_BASE_ADDR, SPIM_BASE_ADDR}
    /\ Probed({"probe"})
    /\ Len(log) = 1 /\ log[1].rc = ERROR_OK
    /\ at32x_info.chip # 0
    /\ rc = ERROR_FAIL

\* the call before this state read the product id of an unprobed bank
IdRead == probes > 0 /\ pre.at32x_info.probed = 0 /\ log # <<>> /\ log[1].rc = ERROR_OK

\* the entries of the table proper whose pid is id
EntriesOf(id) ==
    LET table == known_artery_chips
    IN  {k \in 1..(Len(table) - 1) : table[k].pid = id}

\* C19: the lookup returns the first table entry, in table order, whose pid
\* is the id looked for; for an id that is in no entry, 0 included, it
\* fails, and the probe fails without computing any geometry.
C19_CatalogLookup ==
    IdRead =>
        /\ at32x_info.pid = product_id
        /\ EntriesOf(product_id) # {} =>
              /\ at32x_info.chip \in EntriesOf(product_id)
              /\ \A k \in EntriesOf(product_id) : at32x_info.chip <= k
        /\ EntriesOf(product_id) = {} =>
              /\ call.op \in {"probe", "auto_probe"} => rc = ERROR_FAIL
              /\ Len(log) = 1
              /\ at32x_info.chip = 0
              /\ at32x_info.probed = 0
              /\ at32x_info.flash_size = pre.at32x_info.flash_size
              /\ at32x_info.sector_size = pre.at32x_info.sector_size
              /\ sub_bank = pre.sub_bank
              /\ sectors = pre.sectors
              /\ num_sectors = pre.num_sectors
              /\ bank = pre.bank

\* the id 0x70050243 is that of the second entry (at32f403a) and of a later
\* one (at32f403): the probe settles on the second entry
C19_Witness ==
    /\ IdRead
    /\ Cardinality(EntriesOf(product_id)) = 2
    /\ at32x_info.chip = 2
    /\ at32x_info.probed = 1

\* C16: once a probe or auto-probe has succeeded, every later probe,
\* auto-probe or get-info call returns ERROR_OK without a transport access
\* and leaves the product id, the chip, both sub-banks, the sector array
\* and the protection-block array as they were; the probed flag is set only
\* by a probe that ran to its end without a failure.
C16_ProbedOnce ==
    /\ (probes > 0 /\ pre.at32x_info.probed # 0) =>
          /\ rc = ERROR_OK
          /\ log = <<>>
          /\ at32x_info = pre.at32x_info
          /\ sub_bank = pre.sub_bank
          /\ sectors = pre.sectors
          /\ num_sectors = pre.num_sectors
          /\ bank = pre.bank
    /\ probes = 0 => at32x_info.probed = 0
    /\ (probes > 0 /\ pre.at32x_info.probed = 0 /\ at32x_info.probed # 0) =>
          /\ rc = ERROR_OK
          /\ log # <<>>
          /\ \A i \in DOMAIN log : log[i].rc = ERROR_OK
          /\ at32x_info.chip # 0
          /\ bank.size = at32x_info.flash_size
          /\ num_sectors = at32x_info.flash_size \div at32x_info.sector_size
          /\ DOMAIN sectors = 0..(num_sectors - 1)
          /\ DOMAIN bank.prot_blocks = 0..(bank.num_prot_blocks - 1)

\* a two-sub-bank chip probed, then two more calls, the last one get-info
C16_Witness ==
    /\ probes = 3
    /\ pre.at32x_info.probed # 0
    /\ call.op = "info"
    /\ sub_bank[1].size > 0

(* ------------------------------ wait-busy ----------------------------- *)
\* the positions of the log with a call of kind op
At(op) == {i \in DOMAIN log : log[i].op = op}

\* the polls that read the status, and those that saw the busy flag
Polls == {i \in At("r32") : log[i].rc = ERROR_OK}
BusyPolls == {i \in Polls : HasBit(log[i].v, EFCSTS_OBF)}

\* C25: wait-busy always terminates.  With the busy flag staying set, a
\* call with timeout T >= 0 reads the status at most T + 1 times, sleeps one
\* unit between consecutive reads (T sleeps), then fails without writing a
\* register; a poll that sees busy clear is the last poll.
C25_WaitBusyTerminates ==
    Done("wait") =>
        LET T == call.last
            busy == call.offset
        IN  /\ Cardinality(At("r32")) <= T + 1
            /\ Cardinality(At("sleep")) <= T
            /\ \A i \in At("sleep") :
                  i - 1 \in BusyPolls /\ i + 1 \in At("r32")
            /\ \A i \in BusyPolls :
                  i < Len(log) => log[i + 1].op = "sleep"
            /\ \A i \in Polls \ BusyPolls :
                  \A j \in DOMAIN log : j > i => log[j].op = "w32"
            /\ (busy > T /\ At("r32") = Polls) =>
                  /\ Cardinality(At("r32")) = T + 1
                  /\ Cardinality(At("sleep")) = T
                  /\ At("w32") = {}
                  /\ rc = ERROR_FAIL
            /\ (busy <= T /\ At("r32") = Polls) =>
                  /\ Cardinality(At("r32")) = busy + 1
                  /\ Cardinality(At("sleep")) = busy

\* the controller stays busy through a wait of timeout 3: four reads, three
\* sleeps
C25_Witness ==
    /\ Done("wait")
    /\ call.last = 3
    /\ call.offset > 3
    /\ Cardinality(Polls) = 4
    /\ Cardinality(At("sleep")) = 3
    /\ rc = ERROR_FAIL

\* the poll that saw the busy flag clear
ClearPolls == Polls \ BusyPolls

\* C26: when wait-busy sees busy clear, a status with the program-error or
\* the erase-protection-error bit makes it write error bits to the status
\* register of the same sub-bank and return ERROR_FAIL, whatever that write
\* returns; a status with neither bit makes it return ERROR_OK and write
\* nothing.
C26_ErrorFlagsCleared ==
    Done("wait") =>
        \A i \in ClearPolls :
            IF HasBit(log[i].v, EFCSTS_PRGMERR) \/ HasBit(log[i].v, EFCSTS_EPPERR)
            THEN /\ Len(log) = i + 1
                 /\ IsRegWrite(log[i + 1], call.first, EFC_STS)
                 /\ \/ HasBit(log[i + 1].v, EFCSTS_PRGMERR)
                    \/ HasBit(log[i + 1].v, EFCSTS_EPPERR)
                 /\ \A b \in {EFCSTS_PRGMERR, EFCSTS_EPPERR} :
                       HasBit(log[i].v, b) => HasBit(log[i + 1].v, b)
                 /\ rc = ERROR_FAIL
            ELSE /\ Len(log) = i
                 /\ At("w32") = {}
                 /\ rc = ERROR_OK

\* busy cleared with an error bit and the clearing write failed
C26_Witness ==
    /\ Done("wait")
    /\ ClearPolls # {}
    /\ At("w32") # {}
    /\ log[Len(log)].op = "w32" /\ log[Len(log)].rc # ERROR_OK
    /\ rc = ERROR_FAIL

(* ---------------------------- the fallback path ----------------------- *)
\* the log positions of the sub-bank write p, and its data writes
PieceLog(p) == (p.from + 1)..p.to
DataWrites(p) == {i \in PieceLog(p) : log[i].op = "w16"}

\* the sub-bank write p took the fallback path: the bulk path could not
\* reserve its regions
FellBack(p) ==
    /\ \E i \in PieceLog(p) : log[i].op = "alloc" /\ log[i].rc # ERROR_OK
    /\ \A i \in PieceLog(p) : log[i].op # "run"

\* entry e is a read of the status register of sub-bank sb
IsStatusRead(e, sb) == e.op = "r32" /\ e.a = sub_bank[sb].reg_base + EFC_STS

\* C21: on the fallback path a sub-bank write of n bytes (n even after the
\* padding) makes n / 2 16-bit data writes, the k-th (from 0) of the k-th
\* half-word of the buffer to sub-bank base + offset + 2k, each followed by
\* one wait-busy of timeout 5 before the next data write; a write of an odd
\* number of bytes ends with the half-word of the last byte and 0xFF.
C21_FallbackHalfWords ==
    (Done("write") /\ halted) =>
        \A x \in DOMAIN pieces :
            LET p == pieces[x]
                W == DataWrites(p)
            IN  /\ W # {} => FellBack(p)
                /\ \A i \in W :
                      LET k == Cardinality({j \in W : j < i})
                          at == p.pos + 2 * k
                      IN  /\ log[i].a = sub_bank[p.sb].base + p.offset + 2 * k
                          /\ at + 2 <= Len(handed) =>
                                log[i].v = handed[at + 1] + 256 * handed[at + 2]
                          /\ log[i].rc = ERROR_OK =>
                                /\ IsStatusRead(log[i + 1], p.sb)
                                /\ (log[i + 1].rc = ERROR_OK
                                       /\ HasBit(log[i + 1].v, EFCSTS_OBF)) =>
                                      log[i + 1].n = 5 + 1
                                /\ \A j \in W : j > i => j >= i + 2
                                /\ i + 2 \in PieceLog(p) =>
                                      log[i + 2].op \in {"w16", "w32"}
                /\ (FellBack(p) /\ p.rc = ERROR_OK) =>
                      Cardinality(W) = p.count \div 2
                /\ (FellBack(p) /\ p.rc = ERROR_OK /\ Len(pieces) = 1
                       /\ call.offset < sub_bank[0].size
                       /\ call.offset + PaddedCount <= sub_bank[0].size) =>
                      /\ Cardinality(W) = (call.count + 1) \div 2
                      /\ call.count % 2 = 1 =>
                            \E i \in W :
                                /\ \A j \in W : j <= i
                                /\ log[i].v = pre.buffer[call.count] + 256 * 255

\* five bytes at offset 0 written by the fallback path: three data writes,
\* the last one of the fifth byte and 0xFF
C21_Witness ==
    /\ Done("write") /\ halted /\ rc = ERROR_OK
    /\ call.offset = 0 /\ call.count = 5
    /\ Len(pieces) = 1 /\ FellBack(pieces[1])
    /\ Cardinality(DataWrites(pieces[1])) = 3
    /\ \E i \in DataWrites(pieces[1]) : log[i].v = pre.buffer[5] + 256 * 255


(* --------------------------- sub-bank addresses ----------------------- *)
\* the bytes of the chip in hand, and the capacity of its first sub-bank
ChipTotal == known_artery_chips[at32x_info.chip].flash_size_kb * 1024

ChipThreshold ==
    IF known_artery_chips[at32x_info.chip].flash_size_kb > 1024
    THEN 2 * 1024 * 1024 ELSE 512 * 1024

SubBankBases ==
    /\ sub_bank[0].base = bank.base
    /\ sub_bank[1].base = sub_bank[0].base + sub_bank[0].size

\* C22 as stated: after a successful probe sub-bank 0 starts at the base of
\* the bank, sub-bank 1 at the end of sub-bank 0, and sub-bank 1 has a
\* non-zero size if and only if the total flash size of the chip exceeds the
\* single-bank threshold.
C22_SecondSubBankIffLarge ==
    at32x_info.probed = 1 =>
        /\ SubBankBases
        /\ (sub_bank[1].size # 0) <=> (ChipTotal > ChipThreshold)

\* C22, amended: after a successful probe sub-bank 0 starts at the base of
\* the bank and sub-bank 1 at the end of sub-bank 0; in main-array mode
\* sub-bank 1 has a non-zero size if and only if the total flash size of the
\* chip exceeds the single-bank threshold, and in serial-memory mode
\* sub-bank 1 has size 0 whatever the chip.
C22_SubBankAddresses ==
    at32x_info.probed = 1 =>
        /\ SubBankBases
        /\ at32x_info.spim_info.is_spim = 0 =>
              ((sub_bank[1].size # 0) <=> (ChipTotal > ChipThreshold))
        /\ at32x_info.spim_info.is_spim # 0 => sub_bank[1].size = 0

\* a 4032 KiB chip probed at the main-array base: sub-bank 1 starts 2 MiB
\* above the base of the bank
C22_Witness ==
    /\ at32x_info.probed = 1
    /\ at32x_info.spim_info.is_spim = 0
    /\ ChipTotal = 4032 * 1024
    /\ sub_bank[1].size # 0
    /\ sub_bank[1].base = BANK1_BASE_ADDR + 2 * 1024 * 1024

(* ---------------------------- sector counts --------------------------- *)
\* C23: after a successful probe, in both modes, the sizes of the sub-banks
\* add up to the size of the bank (the total flash size of the chip in
\* main-array mode; the configured size, with a sub-bank 1 of size 0 and
\* sectors of 4096 bytes, in serial-memory mode), the sector count of each
\* sub-bank is its size divided by the sector size, the sector count of the
\* bank is the sum of the two, and sector k of the bank is at offset
\* k * sector_size.
C23_SectorCounts ==
    at32x_info.probed = 1 =>
        /\ sub_bank[0].size + sub_bank[1].size = bank.size
        /\ at32x_info.spim_info.is_spim = 0 => bank.size = ChipTotal
        /\ at32x_info.spim_info.is_spim # 0 =>
              /\ bank.size = at32x_info.spim_info.flash_size
              /\ sub_bank[1].size = 0
              /\ at32x_info.sector_size = 4096
        /\ \A i \in SubBankIds :
              sub_bank[i].num_sectors = sub_bank[i].size \div at32x_info.sector_size
        /\ num_sectors = sub_bank[0].num_sectors + sub_bank[1].num_sectors
        /\ DOMAIN sectors = 0..(num_sectors - 1)
        /\ \A k \in DOMAIN sectors :
              /\ sectors[k].offset = k * at32x_info.sector_size
              /\ sectors[k].size = at32x_info.sector_size

\* a serial-memory bank of 256 KiB probed on a chip of 2048-byte sectors:
\* 64 sectors of 4096 bytes, all of them in sub-bank 0
C23_Witness ==
    /\ at32x_info.probed = 1
    /\ at32x_info.spim_info.is_spim # 0
    /\ known_artery_chips[at32x_info.chip].sector_size = 2048
    /\ bank.size = 262144
    /\ sub_bank[0].num_sectors = 64 /\ sub_bank[1].num_sectors = 0
    /\ sectors[63].offset = 63 * 4096


(* ----------------------- erase of a whole sub-bank -------------------- *)
\* the writes of value v to register reg of its sub-bank during the
\* at32x_sub_bank_erase call p
RegWritesOf(p, reg, v) ==
    {i \in PieceLog(p) : IsRegWrite(log[i], p.sb, reg) /\ log[i].v = v}

AddrWrites(p) == {i \in PieceLog(p) : IsRegWrite(log[i], p.sb, EFC_ADDR)}

\* the range handed over is the whole sub-bank
WholeSubBank(p) == p.first = 0 /\ p.last = sub_bank[p.sb].num_sectors - 1

\* C24: a range handed to a sub-bank that is exactly (0, num_sectors - 1)
\* is carried out as one mass erase (BANKERS, then BANKERS | ERSTR) with no
\* SECERS write and no address write; any other range is carried out as one
\* SECERS sequence (SECERS, the address of the sector, SECERS | ERSTR) for
\* each of its sectors with no BANKERS write.  The same for sub-bank 0 and
\* for sub-bank 1.
C24_WholeSubBankMassErased ==
    (Done("erase") /\ halted) =>
        \A x \in DOMAIN pieces :
            LET p == pieces[x]
                secsz == sub_bank[p.sb].size \div sub_bank[p.sb].num_sectors
                bankers == RegWritesOf(p, EFC_CTRL, EFCCTRL_BANKERS)
                bankStart == RegWritesOf(p, EFC_CTRL, EFCCTRL_BANKERS + EFCCTRL_ERSTR)
                secers == RegWritesOf(p, EFC_CTRL, EFCCTRL_SECERS)
                secStart == RegWritesOf(p, EFC_CTRL, EFCCTRL_SECERS + EFCCTRL_ERSTR)
            IN  /\ WholeSubBank(p) =>
                      /\ secers = {} /\ secStart = {} /\ AddrWrites(p) = {}
                      /\ Cardinality(bankers) <= 1
                      /\ Cardinality(bankStart) <= 1
                      /\ \A i \in bankStart : bankers = {i - 1}
                      /\ p.rc = ERROR_OK =>
                            Cardinality(bankers) = 1 /\ Cardinality(bankStart) = 1
                /\ ~WholeSubBank(p) =>
                      /\ bankers = {} /\ bankStart = {}
                      /\ \A i \in AddrWrites(p) :
                            LET k == Cardinality({j \in AddrWrites(p) : j < i})
                            IN  /\ p.first + k <= p.last
                                /\ log[i].a = sub_bank[p.sb].reg_base + EFC_ADDR
                                /\ log[i].v = sub_bank[p.sb].base + (p.first + k) * secsz
                                /\ i - 1 \in secers
                                /\ log[i].rc = ERROR_OK => i + 1 \in secStart
                      /\ \A i \in secers : log[i].rc = ERROR_OK => i + 1 \in AddrWrites(p)
                      /\ \A i \in secStart : i - 1 \in AddrWrites(p)
                      /\ p.rc = ERROR_OK =>
                            /\ Cardinality(secers) = p.last - p.first + 1
                            /\ Cardinality(AddrWrites(p)) = p.last - p.first + 1
                            /\ Cardinality(secStart) = p.last - p.first + 1

\* sectors 1..4 of the device with two sub-bank erased: the last two
\* sectors of sub-bank 0 one by one, then the whole of sub-bank 1 at once
C24_Witness ==
    /\ Done("erase") /\ halted /\ rc = ERROR_OK
    /\ call.first = 1 /\ call.last = num_sectors - 1
    /\ Len(pieces) = 2
    /\ pieces[1].sb = 0 /\ ~WholeSubBank(pieces[1])
    /\ Cardinality(RegWritesOf(pieces[1], EFC_CTRL, EFCCTRL_SECERS)) = 2
    /\ pieces[2].sb = 1 /\ WholeSubBank(pieces[2])
    /\ Cardinality(RegWritesOf(pieces[2], EFC_CTRL, EFCCTRL_BANKERS)) = 1


(* ------------------------------ mass erase ---------------------------- *)
\* the register accesses made to sub-bank sb during the call
AccessesOf(sb) == {i \in DOMAIN log : InAperture(log[i], sb)}

\* entry e is step k of the mass erase of sub-bank sb; step 6 is the lock
\* write, or the clearing write after a status that shows an error flag
MassEraseStep(e, sb, k, before) ==
    CASE k = 1 -> IsRegWrite(e, sb, EFC_UNLOCK) /\ e.v = KEY1
      [] k = 2 -> IsRegWrite(e, sb, EFC_UNLOCK) /\ e.v = KEY2
      [] k = 3 -> IsRegWrite(e, sb, EFC_CTRL) /\ e.v = EFCCTRL_BANKERS
      [] k = 4 -> IsRegWrite(e, sb, EFC_CTRL) /\ e.v = EFCCTRL_BANKERS + EFCCTRL_ERSTR
      [] k = 5 -> /\ IsStatusRead(e, sb)
                  /\ (e.rc = ERROR_OK /\ HasBit(e.v, EFCSTS_OBF)) => e.n = 120000 + 1
      [] k = 6 -> IF before.v = 0 THEN IsLock(e, sb)
                  ELSE IsRegWrite(e, sb, EFC_STS)
      [] OTHER -> FALSE

\* after entry e, step k, the mass erase of the sub-bank goes on
MassEraseGoesOn(e, k) ==
    /\ e.rc = ERROR_OK
    /\ k = 5 => ~HasBit(e.v, EFCSTS_OBF)
    /\ k < 6

\* C27: mass_erase on a halted target mass-erases each sub-bank of non-zero
\* size, sub-bank 0 before sub-bank 1, each by the unlock keys, BANKERS,
\* BANKERS | ERSTR, a wait-busy of timeout 120000 and the lock write (the
\* sequence ending at the first step that fails); each such sub-bank is
\* attempted whatever the outcome of the other, and a sub-bank of size 0
\* receives no register access.
C27_MassEraseEachSubBank ==
    (Done("mass_erase") /\ halted) =>
        /\ \A i \in AccessesOf(0), j \in AccessesOf(1) : i < j
        /\ \A i \in DOMAIN log : \E sb \in SubBankIds : i \in AccessesOf(sb)
        /\ \A sb \in SubBankIds :
              LET A == AccessesOf(sb)
                  lo == CHOOSE i \in A : \A j \in A : i <= j
              IN  /\ sub_bank[sb].size = 0 => A = {}
                  /\ sub_bank[sb].size # 0 =>
                        /\ A # {}
                        /\ \A i \in A :
                              LET k == i - lo + 1
                              IN  /\ MassEraseStep(log[i], sb, k,
                                                   IF k > 1 THEN log[i - 1] ELSE log[i])
                                  /\ MassEraseGoesOn(log[i], k) <=> (i + 1 \in A)
                        /\ (\A i \in A : ~ShowsFailure(log[i])) =>
                              /\ Cardinality(A) = 6
                              /\ \E i \in A : IsLock(log[i], sb) /\ i + 1 \notin A

\* the mass erase of sub-bank 0 ended at a failed BANKERS write, and that of
\* sub-bank 1 was carried out to its lock write
C27_Witness ==
    /\ Done("mass_erase") /\ halted
    /\ sub_bank[1].size # 0
    /\ Cardinality(AccessesOf(0)) = 3
    /\ log[3].rc # ERROR_OK
    /\ Cardinality(AccessesOf(1)) = 6
    /\ IsLock(log[9], 1) /\ log[9].rc = ERROR_OK


(* ----------------------------- working areas -------------------------- *)
\* entry e reserved working area r (AreaNo), failed to, released it
Reserved(e, r) == e.op = "alloc" /\ e.v = r /\ e.rc = ERROR_OK
Released(e, r) == e.op = "free" /\ e.v = r

\* how many times area r is held once entry i of the log is made
HeldAfter(i, r) ==
    Cardinality({j \in 1..i : Reserved(log[j], r)})
        - Cardinality({j \in 1..i : Released(log[j], r)})

\* entry i is made outside at32x_write_block: the entries made inside it
\* are the working-area calls, the upload, the run and the writes that
\* clear the status register after a failed run
OutsideWriteBlock(i) ==
    /\ log[i].op \notin {"alloc", "free", "wbuf", "run"}
    /\ ~(\E sb \in SubBankIds :
            /\ IsRegWrite(log[i], sb, EFC_STS)
            /\ i > 1
            /\ log[i - 1].op = "run"
                  \/ (i > 2 /\ log[i - 2].op = "run"
                            /\ IsRegWrite(log[i - 1], sb, EFC_STS)))

\* C28: working areas are held only inside one at32x_write_block call: on
\* every way out of it each area it reserved has been released, the staging
\* area before the accelerator area, and the accelerator area is reserved
\* before the staging area; after any sequence of write and protect calls
\* no working area remains reserved.
C28_ScratchHeldInsideWriteBlock ==
    /\ wa = <<>>
    /\ pc # "idle" =>
          /\ \A i \in DOMAIN log, r \in {0, 1} :
                /\ HeldAfter(i, r) \in {0, 1}
                /\ OutsideWriteBlock(i) => HeldAfter(i, r) = 0
                /\ (log[i].op = "alloc" /\ log[i].v = r) => HeldAfter(i - 1, r) = 0
                /\ Released(log[i], r) => HeldAfter(i - 1, r) = 1
          /\ \A i \in DOMAIN log :
                /\ (log[i].op = "alloc" /\ log[i].v = 1) => HeldAfter(i, 0) = 1
                /\ Released(log[i], 0) => HeldAfter(i, 1) = 0
                /\ Released(log[i], 1) =>
                      i < Len(log) /\ Released(log[i + 1], 0)
          /\ \A r \in {0, 1} : HeldAfter(Len(log), r) = 0

\* the second call of a behaviour, a write whose run of the loader failed:
\* both areas were reserved and both were released, in the order of the
\* claim, and the call before it left nothing reserved
C28_Witness ==
    /\ pc = "again" /\ call.op = "write"
    /\ \E i \in DOMAIN log :
          /\ Reserved(log[i], 0)
          /\ Reserved(log[i + 2], 1)
          /\ log[i + 3].op = "run" /\ log[i + 3].rc = ERROR_FLASH_OPERATION_FAILED
          /\ \E j \in DOMAIN log :
                j > i + 3 /\ Released(log[j], 1) /\ Released(log[j + 1], 0)
    /\ wa = <<>>


(* ---------------------------- staging buffer -------------------------- *)
\* the attempts of the sub-bank write p to reserve the staging buffer
StageTries(p) == {i \in PieceLog(p) : log[i].op = "alloc" /\ log[i].v = AreaNo("source")}

\* attempt i is the k-th of p, counted from 0
TryNo(p, i) == Cardinality({j \in StageTries(p) : j < i})

\* 16384 halved k times
RECURSIVE Halved(_)
Halved(k) == IF k = 0 THEN 16384 ELSE Halved(k - 1) \div 2

\* every attempt of p to reserve the staging buffer failed
AllTriesFail(p) ==
    StageTries(p) # {} /\ \A i \in StageTries(p) : log[i].rc # ERROR_OK

\* what holds of the attempts whatever their number: the first is of 16384
\* bytes, each further one follows a failed one and is of half its size,
\* and every size is a multiple of 4
StageHalving(p) ==
    \A i \in StageTries(p) :
        /\ log[i].a = Halved(TryNo(p, i))
        /\ log[i].a % 4 = 0
        /\ \A j \in StageTries(p) : j < i => log[j].rc # ERROR_OK

\* C29 as stated: the staging buffer is tried at 16384 bytes and after each
\* failed attempt at half the size, rounded down to a multiple of 4; when
\* every attempt fails the sizes tried are 16384, 8192, 4096, 2048, 1024,
\* 512 and 256, and then the bulk path gives up with the
\* resource-unavailable result.
C29_StageTriesDownTo256 ==
    (Done("write") /\ halted) =>
        \A x \in DOMAIN pieces :
            /\ StageHalving(pieces[x])
            /\ AllTriesFail(pieces[x]) =>
                  /\ {log[i].a : i \in StageTries(pieces[x])}
                        = {16384, 8192, 4096, 2048, 1024, 512, 256}
                  /\ fell

\* C29, amended: the staging buffer is tried at 16384 bytes and after each
\* failed attempt at half the size, rounded down to a multiple of 4, as long
\* as that is more than 256; when every attempt fails the sizes tried are
\* 16384, 8192, 4096, 2048, 1024 and 512, no attempt is made at 256 bytes,
\* and then the bulk path releases the accelerator area and gives up with
\* the resource-unavailable result, which sends the write to the fallback
\* path.
C29_StageTriesAbove256 ==
    (Done("write") /\ halted) =>
        \A x \in DOMAIN pieces :
            LET p == pieces[x]
            IN  /\ StageHalving(p)
                /\ \A i \in StageTries(p) : log[i].a > 256
                /\ AllTriesFail(p) =>
                      /\ {log[i].a : i \in StageTries(p)}
                            = {16384, 8192, 4096, 2048, 1024, 512}
                      /\ Cardinality(StageTries(p)) = 6
                      /\ \E i \in StageTries(p) :
                            /\ log[i].a = 512
                            /\ Released(log[i + 1], AreaNo("write_algorithm"))
                      /\ fell

\* a write whose accelerator area was reserved and loaded and whose six
\* attempts at a staging buffer failed, the last one at 512 bytes
C29_Witness ==
    /\ Done("write") /\ halted
    /\ Len(pieces) = 1
    /\ AllTriesFail(pieces[1])
    /\ Cardinality(StageTries(pieces[1])) = 6
    /\ \E i \in StageTries(pieces[1]) : log[i].a = 512 /\ log[i + 1].op = "free"
    /\ fell


(* --------------------------- a failed loader run ---------------------- *)
\* the runs of the loader in the sub-bank write p that reported an
\* operation failure
FailedRuns(p) ==
    {i \in PieceLog(p) :
        log[i].op = "run" /\ log[i].rc = ERROR_FLASH_OPERATION_FAILED}

\* 1 if bit is set in the status the run of entry i reported, else 0
Flagged(i, bit) == IF HasBit(log[i].r0, bit) THEN 1 ELSE 0

\* C30: when the run of the loader reports an operation failure, each of
\* PRGMERR and EPPERR that is set in the status it reported is cleared by
\* its own write of that one bit to the status register of the sub-bank
\* being written, a bit that is not set causes no write, both working areas
\* are released, the write returns the failure, the fallback path is not
\* entered and the lock bit is still written.
C30_FailedRunClearsFlags ==
    (Done("write") /\ halted) =>
        \A x \in DOMAIN pieces :
            LET p == pieces[x]
            IN  \A i \in FailedRuns(p) :
                    LET np == Flagged(i, EFCSTS_PRGMERR)
                        ne == Flagged(i, EFCSTS_EPPERR)
                        clears == {j \in PieceLog(p) : IsRegWrite(log[j], p.sb, EFC_STS)}
                    IN  /\ np = 1 => /\ i + 1 \in clears
                                      /\ log[i + 1].v = EFCSTS_PRGMERR
                        /\ ne = 1 => /\ i + 1 + np \in clears
                                      /\ log[i + 1 + np].v = EFCSTS_EPPERR
                        /\ Cardinality(clears) = np + ne
                        /\ Released(log[i + 1 + np + ne], AreaNo("source"))
                        /\ Released(log[i + 2 + np + ne], AreaNo("write_algorithm"))
                        /\ wa = <<>>
                        /\ p.to = i + 3 + np + ne
                        /\ IsLock(log[p.to], p.sb)
                        /\ \A j \in PieceLog(p) : log[j].op # "w16"
                        /\ ~fell
                        /\ p.rc = ERROR_FLASH_OPERATION_FAILED
                        /\ x = Len(pieces)
                        /\ rc = ERROR_FLASH_OPERATION_FAILED

\* a write whose loader run failed with both flags set in the status: two
\* clearing writes, the first of PRGMERR, then the releases and the lock
C30_Witness ==
    /\ Done("write") /\ halted
    /\ Len(pieces) = 1
    /\ \E i \in FailedRuns(pieces[1]) :
          /\ log[i].r0 = EFCSTS_PRGMERR + EFCSTS_EPPERR
          /\ log[i + 1].v = EFCSTS_PRGMERR /\ log[i + 2].v = EFCSTS_EPPERR
          /\ IsLock(log[i + 5], pieces[1].sb)
    /\ rc = ERROR_FLASH_OPERATION_FAILED


(* --------------------------- protection blocks ------------------------ *)
\* the sizes of protection blocks 0 .. b added up
RECURSIVE ProtSizeUpTo(_)
ProtSizeUpTo(b) ==
    IF b < 0 THEN 0 ELSE ProtSizeUpTo(b - 1) + bank.prot_blocks[b].size

\* C31: after a successful probe of a catalog chip there are at most 32
\* protection blocks, each block but the last covers the addresses of two
\* sectors, the last block takes the sectors that remain, the blocks follow
\* one another from offset 0, every block size is positive and at most the
\* bank size, and the block sizes add up to the bank size.
C31_ProtectionBlocks ==
    (at32x_info.probed = 1 /\ at32x_info.spim_info.is_spim = 0) =>
        LET n == bank.num_prot_blocks
            blocks == bank.prot_blocks
        IN  /\ n <= 32
            /\ DOMAIN blocks = 0..(n - 1)
            /\ \A b \in 0..(n - 2) : blocks[b].size = 2 * at32x_info.sector_size
            /\ blocks[0].offset = 0
            /\ \A b \in 1..(n - 1) :
                  blocks[b].offset = blocks[b - 1].offset + blocks[b - 1].size
            /\ \A b \in 0..(n - 1) :
                  blocks[b].size > 0 /\ blocks[b].size <= bank.size
            /\ ProtSizeUpTo(n - 1) = bank.size


(* ----------------------------- sector erase --------------------------- *)
\* entry e is what a per-sector erase p of a sub-bank makes as its access
\* number j, before being the entry made before it: the two keys, then for
\* each sector SECERS, the address, SECERS | ERSTR and the status poll, then
\* the lock write; after a status that shows an error flag, the write that
\* clears the flags
SectorEraseAccess(e, p, j, before) ==
    LET k == j - 3
        q == k \div 4
        secsz == sub_bank[p.sb].size \div sub_bank[p.sb].num_sectors
    IN  CASE j = 1 -> IsRegWrite(e, p.sb, EFC_UNLOCK) /\ e.v = KEY1
          [] j = 2 -> IsRegWrite(e, p.sb, EFC_UNLOCK) /\ e.v = KEY2
          [] j > 3 /\ k % 4 = 0 /\ before.v # 0 -> IsRegWrite(e, p.sb, EFC_STS)
          [] p.first + q > p.last -> k % 4 = 0 /\ IsLock(e, p.sb)
          [] k % 4 = 0 -> IsRegWrite(e, p.sb, EFC_CTRL) /\ e.v = EFCCTRL_SECERS
          [] k % 4 = 1 -> /\ IsRegWrite(e, p.sb, EFC_ADDR)
                          /\ e.v = sub_bank[p.sb].base + (p.first + q) * secsz
          [] k % 4 = 2 -> /\ IsRegWrite(e, p.sb, EFC_CTRL)
                          /\ e.v = EFCCTRL_SECERS + EFCCTRL_ERSTR
          [] OTHER -> /\ IsStatusRead(e, p.sb)
                      /\ (e.rc = ERROR_OK /\ HasBit(e.v, EFCSTS_OBF)) => e.n = 1000 + 1

\* entry e ends the per-sector erase: it failed, it is the lock write, the
\* status it read is not clear, or it clears the flags
EndsSectorErase(e, sb) ==
    \/ e.rc # ERROR_OK
    \/ IsLock(e, sb)
    \/ IsStatusRead(e, sb) /\ HasBit(e.v, EFCSTS_OBF)
    \/ IsRegWrite(e, sb, EFC_STS)

\* C32: a per-sector erase of the local sectors first..last of one sub-bank
\* makes, in this order: KEY1 and KEY2 to the unlock register, once; for each
\* sector in ascending order SECERS, the address sub-bank base + index *
\* sector size, SECERS | ERSTR and a wait-busy of timeout 1000; one lock
\* write after the last sector (the sequence ending at the first step that
\* fails).  No ERSTR is written before the address of its sector.
C32_SectorEraseSequence ==
    (Done("erase") /\ halted) =>
        \A x \in DOMAIN pieces :
            LET p == pieces[x]
            IN  ~WholeSubBank(p) =>
                  /\ p.to > p.from
                  /\ \A i \in PieceLog(p) :
                        /\ SectorEraseAccess(log[i], p, i - p.from,
                                             IF i - p.from > 1 THEN log[i - 1] ELSE log[i])
                        /\ EndsSectorErase(log[i], p.sb) <=> (i = p.to)
                  /\ p.rc = ERROR_OK =>
                        /\ p.to - p.from = 3 + 4 * (p.last - p.first + 1)
                        /\ IsLock(log[p.to], p.sb)
                  /\ \A i \in PieceLog(p) :
                        (IsRegWrite(log[i], p.sb, EFC_CTRL)
                            /\ log[i].v = EFCCTRL_SECERS + EFCCTRL_ERSTR) =>
                              /\ IsRegWrite(log[i - 1], p.sb, EFC_ADDR)
                              /\ log[i - 1].rc = ERROR_OK

\* sectors 0 and 1 of sub-bank 0 erased one by one: eleven accesses, the
\* second address the base plus one sector
C32_Witness ==
    /\ Done("erase") /\ halted /\ rc = ERROR_OK
    /\ call.first = 0 /\ call.last = 1
    /\ Len(pieces) = 1 /\ ~WholeSubBank(pieces[1])
    /\ Len(log) = 11
    /\ log[8].v = sub_bank[0].base + sector_size
    /\ IsLock(log[11], 0)


(* ------------------------- sub-bank address ranges -------------------- *)
\* the addresses a .. a + len - 1 lie in the main-array range of sub-bank sb
InSubBank(sb, a, len) ==
    a >= sub_bank[sb].base /\ a + len <= sub_bank[sb].base + sub_bank[sb].size

\* C33: every controller register access made for sub-bank i is at
\* sub_bank[i].reg_base plus the offset of the register, and every
\* main-array address erased (the value written to the address register) or
\* programmed (the address of a half-word write, the destination range of
\* count half-words of a loader run) through the registers of sub-bank i
\* lies in [sub_bank[i].base, sub_bank[i].base + sub_bank[i].size), for
\* every erase range and every aligned write inside the bank.
C33_AccessesInsideSubBank ==
    ((Done("erase") \/ Done("write")) /\ halted) =>
        \A x \in DOMAIN pieces :
            LET p == pieces[x]
            IN  \A i \in PieceLog(p) :
                    /\ log[i].op \in {"w32", "r32"} =>
                          /\ InAperture(log[i], p.sb)
                          /\ log[i].a - sub_bank[p.sb].reg_base
                                \in {EFC_UNLOCK, EFC_STS, EFC_CTRL, EFC_ADDR}
                    /\ IsRegWrite(log[i], p.sb, EFC_ADDR) =>
                          InSubBank(p.sb, log[i].v, 1)
                    /\ log[i].op = "w16" => InSubBank(p.sb, log[i].a, 2)
                    /\ log[i].op = "run" => InSubBank(p.sb, log[i].a, 2 * log[i].v)


(* ---------------------- failure of a sector erase --------------------- *)
\* the index in bank->sectors of sector i of sub-bank sb
GlobalSector(sb, i) == IF sb = 0 THEN i ELSE sub_bank[0].num_sectors + i

\* the number in the piece of the access that ended a failed per-sector
\* erase p: its last access, or the one before the write that clears the
\* flags
FailingAccess(p) ==
    IF IsRegWrite(log[p.to], p.sb, EFC_STS) THEN p.to - p.from - 1
    ELSE p.to - p.from

\* the sector of the sub-bank that access belongs to (four accesses a
\* sector, after the two keys)
FailedSector(p) == p.first + ((FailingAccess(p) - 3) \div 4)

\* p is a per-sector erase in which the erase of a sector failed
SectorEraseFailed(p) ==
    /\ ~WholeSubBank(p)
    /\ p.rc # ERROR_OK
    /\ FailingAccess(p) >= 3
    /\ FailedSector(p) <= p.last

\* C34: when the erase of sector i fails in a per-sector erase (a register
\* write fails, the wait-busy times out or reports an error flag), no erase
\* command is issued for sector i again or for a later sector, the failure
\* is returned, sector i is not marked erased, and the sectors of the range
\* erased before it are marked erased.
C34_SectorEraseFailureTerminal ==
    (Done("erase") /\ halted) =>
        \A x \in DOMAIN pieces :
            LET p == pieces[x]
                secsz == sub_bank[p.sb].size \div sub_bank[p.sb].num_sectors
                f == FailedSector(p)
            IN  SectorEraseFailed(p) =>
                  /\ x = Len(pieces) /\ p.to = Len(log)
                  /\ rc = p.rc
                  /\ \A i \in PieceLog(p) :
                        IsRegWrite(log[i], p.sb, EFC_ADDR) =>
                            log[i].v <= sub_bank[p.sb].base + f * secsz
                  /\ Cardinality({i \in PieceLog(p) :
                        /\ IsRegWrite(log[i], p.sb, EFC_CTRL)
                        /\ log[i].v = EFCCTRL_SECERS}) = f - p.first + 1
                  /\ sectors[GlobalSector(p.sb, f)].is_erased # 1
                  /\ \A i \in p.first..(f - 1) :
                        sectors[GlobalSector(p.sb, i)].is_erased = 1


(* ------------------------ the frame of protect ------------------------ *)
\* bit i (0..31) of the sector-protection bitmap the option page o holds
ProtBitOf(o, i) == (o[8 + 2 * (i \div 8)] \div Pow2(i % 8)) % 2

\* C35: a protect(set, first, last) with 0 <= first <= last <= 31 that read
\* the four option words and returned OK has written back a record that
\* differs from the one it read only in bits first..last of the protection
\* bitmap, which are 0 when set is true and 1 when set is false; the other
\* bits, the access-protection byte, the boot-select byte and the user
\* word are written back as read.
C35_ProtectFrame ==
    (Done("protect") /\ halted /\ rc = ERROR_OK /\ UsdAllRead) =>
        /\ \A i \in 0..31 :
              ProtBitOf(opt, i) =
                  IF call.first <= i /\ i <= call.last
                  THEN (IF call.set THEN 0 ELSE 1)
                  ELSE ProtBitOf(pre.opt, i)
        /\ \A b \in {0, 2, 4, 6} : opt[b] = pre.opt[b]
        /\ \A b \in 0..7 : opt[2 * b + 1] = 255 - opt[2 * b]
        /\ usd_data.fap = pre.opt[0]
        /\ usd_data.ssb = pre.opt[2]
        /\ usd_data.data = pre.opt[4] + 256 * pre.opt[6]

\* bits 7 and 8 set in a bitmap that had bit 7 and bit 8 clear and bits 0
\* and 15 set, next to a user word of 0x1234
C35_Witness ==
    /\ Done("protect") /\ halted /\ rc = ERROR_OK /\ UsdAllRead
    /\ call.first = 7 /\ call.last = 8 /\ ~call.set
    /\ ProtectionAsRead = <<1, 2, 4, 8>>
    /\ <<opt[8], opt[10], opt[12], opt[14]>> = <<129, 3, 4, 8>>
    /\ opt[4] + 256 * opt[6] = 4660


(* ------------------- round trip of the option bytes ------------------- *)
\* the option page holds the record u as at32x_write_usd_data wrote it: in
\* each of the eight half-words the byte written in the low byte and its
\* complement in the high byte
HoldsWritten(u) ==
    \A k \in 0..7 : /\ opt[2 * k] = UsdBuffer(u)[2 * k + 1]
                    /\ opt[2 * k + 1] = 255 - opt[2 * k]

\* at32x_read_usd_data has returned OK
RecordRead == pc = "again" /\ call.op = "read_usd_data" /\ rc = ERROR_OK

\* C36: when the four option words hold the eight half-words as
\* at32x_write_usd_data wrote them from a record, at32x_read_usd_data
\* returns that record: access protection and boot select from word 0, the
\* user word from word 1, the protection bitmap from words 2 and 3.
C36_UsdRoundTrip ==
    (RecordRead /\ HoldsWritten(pre.usd_data)) => usd_data = pre.usd_data

\* the record written by disable_access_protection on a device with user
\* word 0x1234 and a mixed bitmap, read back
C36_Witness ==
    /\ RecordRead /\ HoldsWritten(pre.usd_data)
    /\ usd_data = [fap |-> ACCESS_PROTECTION_DISABLED, ssb |-> 0, data |-> 4660,
                   protection |-> <<254, 127, 239, 85>>]


(* ------------------ a failed read of the option words ----------------- *)
\* C37: when one of the four reads of the option words fails, protect and
\* disable_access_protection write no unlock key and start no option-byte
\* erase, and program nothing: no register of the controller is written
\* and the option page is as it was.
C37_NoEraseAfterFailedRead ==
    (/\ Done("protect") \/ Done("disable_access_protection")
     /\ halted
     /\ ~UsdAllRead) =>
        /\ \A i \in DOMAIN log : log[i].op = "r32" /\ IsUsdRead(log[i])
        /\ opt = pre.opt


(* ----------------------- writes inside sub-bank 1 --------------------- *)
\* C38: a write that lies in sub-bank 1 (offset >= size of sub-bank 0,
\* offset + count <= bank size) asks sub-bank 1, and it alone, to program
\* the padded count bytes at offset - size of sub-bank 0 from the start of
\* the buffer: the count left after sub-bank 0 was skipped has not wrapped
\* and no byte past the end of the buffer is read.
C38_WriteInsideSubBank1 ==
    (/\ Done("write") /\ halted
     /\ call.offset % 2 = 0
     /\ call.offset >= sub_bank[0].size
     /\ call.offset + call.count <= bank.size) =>
        /\ Len(pieces) = 1
        /\ pieces[1].sb = 1
        /\ pieces[1].offset = call.offset - sub_bank[0].size
        /\ pieces[1].count = PaddedCount
        /\ pieces[1].pos + pieces[1].count <= Len(handed)


(* -------------------- the flags of the erased sectors ----------------- *)
\* C39: after a successful erase of the sectors first..last of the bank
\* that was made sector by sector (not the whole bank, no whole sub-bank),
\* is_erased is 1 for the bank sectors first..last and the flag of every
\* other sector is as before; a sector of sub-bank 1 is marked at its index
\* in the bank, not at its index in the sub-bank.
C39_ErasedFlagsAtBankIndex ==
    (/\ Done("erase") /\ halted /\ rc = ERROR_OK
     /\ ~WholeBank
     /\ \A x \in DOMAIN pieces : ~WholeSubBank(pieces[x])) =>
        \A g \in DOMAIN sectors :
            sectors[g].is_erased =
                IF call.first <= g /\ g <= call.last THEN 1
                ELSE pre.sectors[g].is_erased


(* ------------- the option-byte write without working areas ------------ *)
\* the last request for a working area was refused
ScratchRefused ==
    \E i \in DOMAIN log :
        /\ log[i].op = "alloc"
        /\ log[i].rc # ERROR_OK
        /\ \A j \in (i + 1)..Len(log) : log[j].op # "alloc"

\* C40: when the working areas cannot be reserved in an option-byte
\* operation, the option-byte page has been erased by then and none of the
\* 8 option half-words is programmed, singly or by the loader; protect
\* returns the resource-unavailable error and disable_access_protection
\* returns OK.
C40_UsdWriteNoFallback ==
    (/\ Done("protect") \/ Done("disable_access_protection")
     /\ halted
     /\ ScratchRefused) =>
        /\ UsdEraseOk
        /\ \A i \in DOMAIN log : log[i].op \notin {"w16", "run"}
        /\ \A b \in DOMAIN opt : opt[b] = 255
        /\ rc = IF call.op = "protect" THEN ERROR_TARGET_RESOURCE_NOT_AVAILABLE
                ELSE ERROR_OK

\* protect on a device whose page held a record: the loader code found
\* room, every size of the staging buffer was refused
C40_Witness ==
    /\ Done("protect") /\ halted /\ ScratchRefused
    /\ rc = ERROR_TARGET_RESOURCE_NOT_AVAILABLE
    /\ pre.opt[0] = ACCESS_PROTECTION_DISABLED
    /\ \A b \in DOMAIN opt : opt[b] = 255
    /\ \E i \in DOMAIN log : log[i].op = "alloc" /\ log[i].rc = ERROR_OK
    /\ \E i \in DOMAIN log : log[i].op = "free"

=============================================================================
